---- MODULE Spec2Model ----
(***************************************************************************)
(* Variable introspection and lazy loading of gdlv (infovars.go).          *)
(*                                                                         *)
(* Go strings are sequences of one-character strings, so that len(s),      *)
(* concatenation and prefix tests are what they are in the code.  Display  *)
(* nodes (Variable values) live in a heap indexed by node id: a pointer is  *)
(* an id, Nil is the nil pointer.  The fields of the embedded api.Variable *)
(* are kept in the node record itself; api.Variable.Children, which only   *)
(* the pretty printer reads after wrapping, is not kept.                   *)
(***************************************************************************)
EXTENDS Integers, Sequences, FiniteSets, TLC

\* ------------------------------------------------------------------ bounds
MaxNodes == 13       \* display nodes alive at once
MaxTasks == 2        \* load-more goroutines alive at once
MaxExprs == 1        \* watch expressions
MaxLoads == 2        \* loads of a scope (loadLocals, loadGlobals) in a session

NodeIds == 1..MaxNodes
TaskIds == 1..MaxTasks
Nil == 0

\* ------------------------------------------------------------------ state
VARIABLES
    session,    \* the debuggee, the panels shown and what the user does with them
    varFormat,  \* varFormat: address -> the number formatter installed for it
    heap,       \* node id -> Variable, NoNode where nothing is allocated
    locals,     \* localsPanel.locals
    globals,    \* globalsPanel.globals
    exprs,      \* localsPanel.expressions (the Expr field of each)
    watch,      \* localsPanel.v
    selected,   \* localsPanel.selected: the expression being edited, -1 for none
    mu,         \* additionalLoadMu: who holds it
    running,    \* additionalLoadRunning
    tasks,      \* the goroutines started by loadMore*
    exprTasks,  \* the goroutines running loadOneExpr(i): their argument i, and in
                \* at the place their expression has now (-1 once it is removed)
    render,     \* the user-interface goroutine inside updateLocals/updateGlobals
    redraw,     \* the panels wnd.Changed() has asked to draw again
    loads,      \* the scope loads so far
    done,       \* the calls of asyncLoad.done: the panel, the error passed and
                \* the errors the listings had returned, in the order of the calls
    printed,    \* the Variable printVar built for its last expression
    drawn,      \* the rows the last visit of a render pass drew: node and text
    dropped,    \* nodes whose automatic request was refused and not yet accepted
    \* the command line, src/commands.go
    cmds,       \* cmds.cmds: the aliases and the function of each command
    lastCmd,    \* cmds.lastCmd
    found,      \* the last call of Commands.Find: its argument and what it returned
    helped,     \* the last listing of Commands.help: the names printed, or a panic
    configured, \* what the last configureSetAlias returned
    split,      \* the last call of splitQuotedFields: its arguments and its result
    restarted,  \* resetArgs and newArgs of the last restart
    breakpoints, \* the breakpoints the service holds, by ID
    created,    \* the number of breakpoints created so far
    stepped     \* the last stepInto or continueToLine: its breakpoint and its error

\* ----------------------------------------------------------------- strings
Digit == <<"0", "1", "2", "3", "4", "5", "6", "7", "8", "9">>
HexDigit == Digit \o <<"a", "b", "c", "d", "e", "f">>

RECURSIVE Itoa(_)
\* fmt's %d of a non-negative int
Itoa(n) == IF n < 10 THEN <<Digit[n + 1]>>
           ELSE Itoa(n \div 10) \o <<Digit[(n % 10) + 1]>>

RECURSIVE HexDigits(_)
HexDigits(n) == IF n < 16 THEN <<HexDigit[n + 1]>>
                ELSE HexDigits(n \div 16) \o <<HexDigit[(n % 16) + 1]>>

\* fmt's %#x of an address
Hex(n) == <<"0", "x">> \o HexDigits(n)

\* fmt's %q of a string without characters that need escaping
Quote(s) == <<"\"">> \o s \o <<"\"">>

HasPrefix(s, p) == Len(s) >= Len(p) /\ SubSeq(s, 1, Len(p)) = p
HasSuffix(s, p) == Len(s) >= Len(p) /\ SubSeq(s, Len(s) - Len(p) + 1, Len(s)) = p

\* ------------------------------------------------- 64-bit integers, strconv
\* A 64-bit word is four limbs of 16 bits, the lowest first; a signed word is
\* in two's complement.  Every intermediate value stays below 2^31.
Limb == 65536
Zero64 == <<0, 0, 0, 0>>
Word(n) == <<n % Limb, n \div Limb, 0, 0>>

\* x * m + c for m, c < 2^15: the low 64 bits and what is carried out of them
MulAdd(x, m, c) ==
    LET t1 == x[1] * m + c
        t2 == x[2] * m + (t1 \div Limb)
        t3 == x[3] * m + (t2 \div Limb)
        t4 == x[4] * m + (t3 \div Limb)
    IN [v |-> <<t1 % Limb, t2 % Limb, t3 % Limb, t4 % Limb>>, carry |-> t4 \div Limb]

\* x divided by d for 0 < d < 2^15: quotient and remainder
DivSmall(x, d) ==
    LET c4 == x[4]
        c3 == (c4 % d) * Limb + x[3]
        c2 == (c3 % d) * Limb + x[2]
        c1 == (c2 % d) * Limb + x[1]
    IN [q |-> <<c1 \div d, c2 \div d, c3 \div d, c4 \div d>>, r |-> c1 % d]

\* two's complement negation, and the sign bit
Neg64(x) == MulAdd(<<Limb - 1 - x[1], Limb - 1 - x[2], Limb - 1 - x[3], Limb - 1 - x[4]>>, 1, 1).v
IsNeg64(x) == x[4] >= 32768
Abs64(x) == IF IsNeg64(x) THEN Neg64(x) ELSE x

\* x + y in 64 bits
Add64(x, y) ==
    LET t1 == x[1] + y[1]
        t2 == x[2] + y[2] + (t1 \div Limb)
        t3 == x[3] + y[3] + (t2 \div Limb)
        t4 == x[4] + y[4] + (t3 \div Limb)
    IN <<t1 % Limb, t2 % Limb, t3 % Limb, t4 % Limb>>

\* x < y for unsigned words, and for signed words
Below64(x, y) ==
    \E i \in 1..4 : x[i] < y[i] /\ \A j \in (i + 1)..4 : x[j] = y[j]
Less64(x, y) ==
    IF IsNeg64(x) # IsNeg64(y) THEN IsNeg64(x) ELSE Below64(x, y)

\* a word below 2^31 as an integer
Small(x) == x[1] + Limb * x[2] + (IF x[3] = 0 /\ x[4] = 0 THEN 0 ELSE Limb * Limb * x[3])

IsDigits(s) == s # <<>> /\ \A i \in 1..Len(s) : \E d \in 1..10 : Digit[d] = s[i]
DigitVal(c) == (CHOOSE d \in 1..10 : Digit[d] = c) - 1

RECURSIVE ParseFrom(_, _, _)
\* the decimal digits s from position i on, appended to the word x
ParseFrom(s, i, x) ==
    IF i > Len(s) THEN [ok |-> TRUE, v |-> x]
    ELSE CHOOSE r \in {IF m.carry # 0 THEN [ok |-> FALSE, v |-> Zero64]
                       ELSE ParseFrom(s, i + 1, m.v) :
                           m \in {MulAdd(x, 10, DigitVal(s[i]))}} : TRUE

\* strconv.ParseUint(s, 10, 64)
ParseUint(s) == IF IsDigits(s) THEN ParseFrom(s, 1, Zero64) ELSE [ok |-> FALSE, v |-> Zero64]

\* strconv.ParseInt(s, 10, 64): an optional sign, then digits; the magnitude is
\* at most 2^63 - 1, or 2^63 after a minus sign
ParseInt(s) ==
    LET signed == s # <<>> /\ s[1] \in {"+", "-"}
        neg == s # <<>> /\ s[1] = "-"
        u == ParseUint(IF signed THEN Tail(s) ELSE s)
    IN IF ~u.ok THEN u
       ELSE IF neg THEN (IF IsNeg64(u.v) /\ u.v # <<0, 0, 0, 32768>>
                         THEN [ok |-> FALSE, v |-> Zero64]
                         ELSE [ok |-> TRUE, v |-> Neg64(u.v)])
       ELSE IF IsNeg64(u.v) THEN [ok |-> FALSE, v |-> Zero64] ELSE u

RECURSIVE DigitsOf(_, _)
\* the digits of the word x in base b <= 16, without leading zeros
DigitsOf(x, b) ==
    CHOOSE r \in {IF d.q = Zero64 THEN <<HexDigit[d.r + 1]>>
                  ELSE DigitsOf(d.q, b) \o <<HexDigit[d.r + 1]>> :
                      d \in {DivSmall(x, b)}} : TRUE

\* fmt's %d and %+d of a signed word
FormatInt(x) == (IF IsNeg64(x) THEN <<"-">> ELSE <<>>) \o DigitsOf(Abs64(x), 10)
FormatIntSigned(x) == (IF IsNeg64(x) THEN <<"-">> ELSE <<"+">>) \o DigitsOf(Abs64(x), 10)

\* the characters ' ' to '~'; the grave accent, which a TLA+ string cannot
\* hold, is written "U+0060"
Printable ==
  <<" ", "!", "\"", "#", "$", "%", "&", "'", "(", ")", "*", "+",
    ",", "-", ".", "/", "0", "1", "2", "3", "4", "5", "6", "7",
    "8", "9", ":", ";", "<", "=", ">", "?", "@", "A", "B", "C",
    "D", "E", "F", "G", "H", "I", "J", "K", "L", "M", "N", "O",
    "P", "Q", "R", "S", "T", "U", "V", "W", "X", "Y", "Z", "[",
    "\\", "]", "^", "_", "U+0060", "a", "b", "c", "d", "e", "f", "g",
    "h", "i", "j", "k", "l", "m", "n", "o", "p", "q", "r", "s",
    "t", "u", "v", "w", "x", "y", "z", "{", "|", "}", "~">>

\* fmt's %q of the integer n in ' '..'~': the quoted character
QuoteRune(n) ==
    <<"'">> \o (IF Printable[n - 31] \in {"'", "\\"} THEN <<"\\">> ELSE <<>>)
        \o <<Printable[n - 31], "'">>

\* ------------------------------------------------------ time, lines 103-140
\* n in decimal, with zeros in front up to w digits (time.appendInt)
Pad(n, w) ==
    LET s == Itoa(IF n < 0 THEN -n ELSE n)
    IN (IF n < 0 THEN <<"-">> ELSE <<>>)
        \o [i \in 1..(IF Len(s) < w THEN w - Len(s) ELSE 0) |-> "0"] \o s

\* the date of the day that is z days after 1 January 1970
CivilFromDays(z) ==
    LET era == (z + 719468) \div 146097
        doe == (z + 719468) - era * 146097
        yoe == (doe - (doe \div 1460) + (doe \div 36524) - (doe \div 146096)) \div 365
        doy == doe - (365 * yoe + (yoe \div 4) - (yoe \div 100))
        mp == (5 * doy + 2) \div 153
        m == IF mp < 10 THEN mp + 3 ELSE mp - 9
    IN [year |-> yoe + era * 400 + (IF m <= 2 THEN 1 ELSE 0), month |-> m,
        day |-> doy - ((153 * mp + 2) \div 5) + 1]

\* t.UTC().Format(time.RFC3339) of the second sod of the day days (since 1970)
RFC3339(days, sod) ==
    LET c == CivilFromDays(days)
    IN Pad(c.year, 4) \o <<"-">> \o Pad(c.month, 2) \o <<"-">> \o Pad(c.day, 2) \o <<"T">>
        \o Pad(sod \div 3600, 2) \o <<":">> \o Pad((sod % 3600) \div 60, 2) \o <<":">>
        \o Pad(sod % 60, 2) \o <<"Z">>

\* a number of seconds (a word, not negative) as days and second of the day:
\* 86400 = 128 * 675
DaysAndSecond(x) ==
    LET a == DivSmall(x, 128)
        b == DivSmall(a.q, 675)
    IN [days |-> Small(b.q), sod |-> b.r * 128 + a.r]

\* the same for a signed word: the day before for a negative remainder
FloorDays(x) ==
    IF ~IsNeg64(x) THEN DaysAndSecond(x)
    ELSE LET m == DaysAndSecond(Neg64(x))
         IN IF m.sod = 0 THEN [days |-> -m.days, sod |-> 0]
            ELSE [days |-> -m.days - 1, sod |-> 86400 - m.sod]

\* int64(x) * 1000000000 in 64 bits, as time.Duration(ext) * time.Second is computed
MulSecond(x) == MulAdd(MulAdd(MulAdd(x, 1000, 0).v, 1000, 0).v, 1000, 0).v

\* the whole seconds (time.Time).Add moves by for the duration d in
\* nanoseconds: d / 1e9, one less when the nanoseconds left are negative
AddedSeconds(d) ==
    LET a == DivSmall(Abs64(d), 1000)
        b == DivSmall(a.q, 1000)
        c == DivSmall(b.q, 1000)
    IN IF ~IsNeg64(d) THEN c.q
       ELSE IF a.r = 0 /\ b.r = 0 /\ c.r = 0 THEN Neg64(c.q)
       ELSE Neg64(MulAdd(c.q, 1, 1).v)

\* lines 142-149: the index of the child of v called name, 0 when there is none
fieldVariable(v, name) ==
    IF \E i \in 1..Len(v.Children) : v.Children[i].Name = name
    THEN CHOOSE i \in 1..Len(v.Children) :
            /\ v.Children[i].Name = name
            /\ \A j \in 1..(i - 1) : v.Children[j].Name # name
    ELSE 0

unixTimestampOfWallEpochDays == 31045   \* 2682288000 seconds: 1 Jan 1885 to 1 Jan 1970
daysToUnixEpoch == 719162               \* 1 Jan of year 1 to 1 Jan 1970

\* the same with bit 63 left in A
wallSecondsWithFlag(wall) ==
    LET A == wall[4]
        B == (wall[2] \div 16384) + 4 * wall[3]
        R == A * 2944 + B
    IN [days |-> 3 * A + (R \div 86400), sod |-> R % 86400]

\* line 127: bits 30..62 of wall, as days and second of the day: with
\* A = bits 48..62 and B = bits 30..47 the seconds are A * 2^18 + B, and
\* 2^18 = 3 * 86400 + 2944
wallSeconds(wall) ==
    LET A == wall[4] % 32768
        B == (wall[2] \div 16384) + 4 * wall[3]
        R == A * 2944 + B
    IN [days |-> 3 * A + (R \div 86400), sod |-> R % 86400]

\* int64(maxAddSeconds / time.Second) of line 106: 9223372036 = 2 * 2^32 + 9665 * 2^16 + 32004
maxAddSeconds == <<32004, 9665, 2, 0>>

RECURSIVE addChunks(_, _)
\* lines 133-137: the seconds t has advanced by when ext seconds are left to
\* add.  (time.Time).Add moves a time without monotonic reading by the whole
\* seconds of the duration, so a chunk moves t by maxAddSeconds seconds and
\* the last step by the seconds of time.Duration(ext) * time.Second.
addChunks(t, ext) ==
    IF Less64(maxAddSeconds, ext)
    THEN addChunks(Add64(t, maxAddSeconds), Add64(ext, Neg64(maxAddSeconds)))
    ELSE Add64(t, AddedSeconds(MulSecond(ext)))

\* lines 122-139 for the parsed wall and ext
formatParsed(wall, ext) ==
    IF IsNeg64(wall)
    THEN LET s == wallSeconds(wall)
         IN <<"t", "i", "m", "e", ".", "T", "i", "m", "e", "(">>
              \o RFC3339(s.days - unixTimestampOfWallEpochDays, s.sod)
              \o <<",", " ">> \o FormatIntSigned(ext) \o <<")">>
    ELSE LET s == FloorDays(addChunks(Zero64, ext))
         IN RFC3339(s.days - daysToUnixEpoch, s.sod)

\* a decoder that does not look at Unreadable
formatTimeOfUnreadable(v) ==
    LET w == fieldVariable(v, <<"w", "a", "l", "l">>)
        e == fieldVariable(v, <<"e", "x", "t">>)
    IN IF w = 0 \/ e = 0 THEN v.Value
       ELSE IF v.Children[w].Value = <<>> \/ v.Children[e].Value = <<>> THEN v.Value
       ELSE IF ~ParseUint(v.Children[w].Value).ok \/ ~ParseInt(v.Children[e].Value).ok
       THEN v.Value
       ELSE formatParsed(ParseUint(v.Children[w].Value).v, ParseInt(v.Children[e].Value).v)

\* lines 103-140
formatTime(v) ==
    LET w == fieldVariable(v, <<"w", "a", "l", "l">>)
        e == fieldVariable(v, <<"e", "x", "t">>)
    IN IF w = 0 \/ e = 0 THEN v.Value
       ELSE IF v.Children[w].Unreadable # <<>> \/ v.Children[e].Unreadable # <<>>
               \/ v.Children[w].Value = <<>> \/ v.Children[e].Value = <<>> THEN v.Value
       ELSE IF ~ParseUint(v.Children[w].Value).ok \/ ~ParseInt(v.Children[e].Value).ok
       THEN v.Value
       ELSE formatParsed(ParseUint(v.Children[w].Value).v, ParseInt(v.Children[e].Value).v)

\* ------------------------------------------------------------- api.Variable
\* reflect.Kind values used by the code; "Invalid" is reflect.Invalid = 0.
NumericKinds == {"Int", "Int8", "Int16", "Int32", "Int64", "Uint", "Uint8",
                 "Uint16", "Uint32", "Uint64", "Uintptr", "Complex64",
                 "Complex128", "Float32", "Float64"}

RawVar(kind, type, name, addr, len, onlyAddr, value, declLine, children) ==
    [Kind |-> kind, Type |-> type, Name |-> name, Addr |-> addr, Len |-> len,
     OnlyAddr |-> onlyAddr, Value |-> value, Unreadable |-> <<>>,
     DeclLine |-> declLine, Children |-> children]

\* ------------------------------------------------------------------- heap
NoNode == [Kind |-> "none"]

FreeIds(h) == {n \in NodeIds : h[n] = NoNode}
NewId(h) == CHOOSE n \in FreeIds(h) : \A m \in FreeIds(h) : n <= m

RECURSIVE RawSize(_), RawSizeSeq(_)
\* number of display nodes wrapping v allocates (one per api.Variable)
RawSize(v) == 1 + RawSizeSeq(v.Children)
RawSizeSeq(vs) == IF vs = <<>> THEN 0 ELSE RawSize(Head(vs)) + RawSizeSeq(Tail(vs))

\* --------------------------------------------- wrapApiVariable(s), lines 64-220
minInlineKeyValueLen == 20

\* numberMode, and the kinds whose contextual menu offers the modes
\* (showExprMenu, lines 529-566)
NumberModes == {"dec", "hex", "oct"}
IntKinds == {"Int", "Int8", "Int16", "Int32", "Int64"}
UintKinds == {"Uint", "Uint8", "Uint16", "Uint32", "Uint64", "Uintptr"}

\* intFormatter[mode] and uintFormatter[mode] applied to a node whose received
\* value is raw: the number in decimal, with 0x in hexadecimal, with 0 in octal;
\* a value that is not a number counts as 0
formatNumber(f, raw) ==
    CHOOSE r \in
        {(IF f.signed /\ IsNeg64(n) THEN <<"-">> ELSE <<>>)
            \o CASE f.mode = "hex" -> <<"0", "x">> \o DigitsOf(mag, 16)
                 [] f.mode = "oct" -> IF mag = Zero64 THEN <<"0">>
                                     ELSE <<"0">> \o DigitsOf(mag, 8)
                 [] OTHER -> DigitsOf(mag, 10) :
           n \in {IF f.signed THEN ParseInt(raw).v ELSE ParseUint(raw).v},
           mag \in {IF f.signed THEN Abs64(ParseInt(raw).v) ELSE ParseUint(raw).v}} : TRUE

\* conf.CustomFormatters[v.Type].Format: the value in the format of the type
customFormat(v) == <<"{">> \o v.Type \o <<" ">> \o v.Value \o <<"}">>

\* a test that leaves out the space: n > ' ' && n <= '~'
printableRuneAboveSpace(value) ==
    LET p == ParseInt(value)
    IN IF p.ok /\ p.v[2] = 0 /\ p.v[3] = 0 /\ p.v[4] = 0 /\ p.v[1] > 32 /\ p.v[1] <= 126
       THEN p.v[1] ELSE 0

\* lines 71-74: strconv.Atoi of the value and the test n >= ' ' && n <= '~';
\* the character code, 0 when the test fails
printableRune(value) ==
    LET p == ParseInt(value)
    IN IF p.ok /\ p.v[2] = 0 /\ p.v[3] = 0 /\ p.v[4] = 0 /\ p.v[1] >= 32 /\ p.v[1] <= 126
       THEN p.v[1] ELSE 0

T_uint8 == <<"u", "i", "n", "t", "8">>
T_int32 == <<"i", "n", "t", "3", "2">>
T_time == <<"t", "i", "m", "e", ".", "T", "i", "m", "e">>

\* the override last, below the other rules
formatValueOverrideLast(v, customFormatters) ==
    IF v.Kind \in {"Int", "Uint"} /\ v.Type \in {T_uint8, T_int32}
    THEN IF printableRune(v.Value) # 0
         THEN v.Value \o <<" ">> \o QuoteRune(printableRune(v.Value))
         ELSE v.Value
    ELSE IF v.Type \in session.formatters /\ customFormatters THEN customFormat(v)
    ELSE IF v.Type = T_time THEN formatTime(v)
    ELSE IF v.Addr \in DOMAIN varFormat THEN formatNumber(varFormat[v.Addr], v.Value)
    ELSE v.Value

\* lines 66-79: the value shown
formatValue(v, customFormatters) ==
    IF v.Addr \in DOMAIN varFormat THEN formatNumber(varFormat[v.Addr], v.Value)
    ELSE IF v.Kind \in {"Int", "Uint"} /\ v.Type \in {T_uint8, T_int32}
    THEN IF printableRune(v.Value) # 0
         THEN v.Value \o <<" ">> \o QuoteRune(printableRune(v.Value))
         ELSE v.Value
    ELSE IF v.Type \in session.formatters /\ customFormatters THEN customFormat(v)
    ELSE IF v.Type = T_time THEN formatTime(v)
    ELSE v.Value

\* the IntMode the installed formatter leaves in the node, decMode without one
formatMode(v) == IF v.Addr \in DOMAIN varFormat THEN varFormat[v.Addr].mode ELSE "dec"

\* a numbering that starts again from zero in every batch
childNameFromZero(v, kind, start, i) ==
    CASE kind = "Interface" -> <<"d", "a", "t", "a">>
      [] kind \in {"Slice", "Array"} -> <<"[">> \o Itoa(i) \o <<"]">>
      [] OTHER -> v.Name

\* switch kind of lines 185-216: the display name of child i (zero-based)
childName(v, kind, start, i) ==
    CASE kind = "Interface" -> <<"d", "a", "t", "a">>
      [] kind \in {"Slice", "Array"} -> <<"[">> \o Itoa(start + i) \o <<"]">>
      [] OTHER -> v.Name

\* no stripping: the expression as it is
keepDeref(x) == x

\* lines 203-206: x without an enclosing (*( ))
stripDeref(x) ==
    IF HasPrefix(x, <<"(", "*", "(">>) /\ HasSuffix(x, <<")", ")">>)
    THEN SubSeq(x, 4, Len(x) - 2) ELSE x

\* a switch whose default is the case 0
childExprByName(v, kind, start, i, expr) ==
    CASE kind = "Interface" -> <<>>
      [] kind \in {"Slice", "Array"} ->
           IF expr # <<>> THEN expr \o <<"[">> \o Itoa(start + i) \o <<"]">> ELSE <<>>
      [] kind = "Ptr" ->
           IF expr # <<>> THEN <<"(", "*", "(">> \o expr \o <<")", ")">> ELSE <<>>
      [] kind \in {"Struct", "Chan"} ->
           IF expr # <<>> THEN stripDeref(expr) \o <<".">> \o v.Name ELSE <<>>
      [] OTHER -> v.Name

\* a switch whose Ptr case does not test expr
childExprUntested(v, kind, start, i, expr) ==
    CASE kind = "Interface" -> <<>>
      [] kind \in {"Slice", "Array"} ->
           IF expr # <<>> THEN expr \o <<"[">> \o Itoa(start + i) \o <<"]">> ELSE <<>>
      [] kind = "Ptr" -> <<"(", "*", "(">> \o expr \o <<")", ")">>
      [] kind \in {"Struct", "Chan"} ->
           IF expr # <<>> THEN stripDeref(expr) \o <<".">> \o v.Name ELSE <<>>
      [] kind = "Invalid" -> v.Name
      [] OTHER -> <<>>

\* switch kind of lines 185-216: the expression of child i (zero-based)
childExpr(v, kind, start, i, expr) ==
    CASE kind = "Interface" -> <<>>
      [] kind \in {"Slice", "Array"} ->
           IF expr # <<>> THEN expr \o <<"[">> \o Itoa(start + i) \o <<"]">> ELSE <<>>
      [] kind = "Ptr" ->
           IF expr # <<>> THEN <<"(", "*", "(">> \o expr \o <<")", ")">> ELSE <<>>
      [] kind \in {"Struct", "Chan"} ->
           IF expr # <<>> THEN stripDeref(expr) \o <<".">> \o v.Name ELSE <<>>
      [] kind = "Invalid" -> v.Name
      [] OTHER -> <<>>

\* a fold that does not look at the length of the key
keyNameAnyLength(key) ==
    IF Len(key.Children) = 0
    THEN CASE key.Kind = "String" -> <<"[">> \o Quote(key.Value) \o <<"]">>
           [] key.Kind \in NumericKinds -> <<"[">> \o key.Value \o <<"]">>
           [] OTHER -> <<>>
    ELSE <<>>

\* lines 160-174: the display name a map key folds into, <<>> when it does not fold
keyName(key) ==
    IF Len(key.Children) = 0 /\ Len(key.Value) < minInlineKeyValueLen
    THEN CASE key.Kind = "String" -> <<"[">> \o Quote(key.Value) \o <<"]">>
           [] key.Kind \in NumericKinds -> <<"[">> \o key.Value \o <<"]">>
           [] OTHER -> <<>>
    ELSE <<>>

pairName(n, what) == <<"[">> \o Itoa(n) \o <<" ">> \o what \o <<"]">>

RECURSIVE wrapApiVariable(_, _, _, _, _)
RECURSIVE wrapApiVariables(_, _, _, _, _, _)
RECURSIVE wrapMapFrom(_, _, _, _, _)
RECURSIVE wrapSeqFrom(_, _, _, _, _, _, _)

\* Wrapping allocates in a heap h and returns the new heap with the id of the
\* node (wrapApiVariable) or the ids of the nodes (wrapApiVariables).

\* lines 65-89: the Variable before its children are wrapped
newVariable(v, name, expr, customFormatters) ==
    [Kind |-> v.Kind, Type |-> v.Type, Name |-> v.Name, Addr |-> v.Addr,
     Len |-> v.Len, OnlyAddr |-> v.OnlyAddr, Unreadable |-> v.Unreadable,
     DeclLine |-> v.DeclLine, RawValue |-> v.Value,
     Value |-> formatValue(v, customFormatters), IntMode |-> formatMode(v),
     loading |-> FALSE,
     Varname |-> IF name # <<>> THEN name ELSE v.Type,
     DisplayName |-> IF name # <<>> THEN name ELSE v.Type,
     Expression |-> expr, Children |-> <<>>]

\* lines 93-99: what the pointer in an interface points to takes the pointer's name
renameData(h, kind, ids) ==
    IF /\ kind = "Interface"
       /\ Len(ids) > 0
       /\ ids[1] # Nil
       /\ h[ids[1]].Kind = "Ptr"
       /\ Len(h[ids[1]].Children) > 0
    THEN [h EXCEPT ![h[ids[1]].Children[1]].DisplayName = h[ids[1]].DisplayName]
    ELSE h

\* lines 91-100: node r gets the wrapped children w
withChildren(r, kind, w) ==
    [h |-> renameData([w.h EXCEPT ![r].Children = w.ids], kind, w.ids), id |-> r]

wrapInto(h, r, v, name, expr, customFormatters) ==
    withChildren(r, v.Kind,
                 wrapApiVariables([h EXCEPT ![r] = newVariable(v, name, expr, customFormatters)],
                                  v.Children, v.Kind, 0, expr, customFormatters))

wrapApiVariable(h, v, name, expr, customFormatters) ==
    wrapInto(h, NewId(h), v, name, expr, customFormatters)

\* r = append(r, ...) followed by the rest of the loop
appendIds(ids, rest) == [h |-> rest.h, ids |-> ids \o rest.ids]

\* a folded pair that takes one place only
foldedPairAlone(a, vs, i, start, customFormatters) ==
    appendIds(<<a.id>>, wrapMapFrom(a.h, vs, i + 2, start, customFormatters))

\* a folded pair with nil before the folded value
foldedPairNilFirst(a, vs, i, start, customFormatters) ==
    appendIds(<<Nil, a.id>>, wrapMapFrom(a.h, vs, i + 2, start, customFormatters))

\* lines 170-171: the folded value a, then nil
foldedPair(a, vs, i, start, customFormatters) ==
    appendIds(<<a.id, Nil>>, wrapMapFrom(a.h, vs, i + 2, start, customFormatters))

\* lines 177-178: the key a, then the value b
keyAndValue(a, b, vs, i, start, customFormatters) ==
    appendIds(<<a.id, b.id>>, wrapMapFrom(b.h, vs, i + 2, start, customFormatters))

keyThenValue(a, vs, i, start, customFormatters) ==
    keyAndValue(a,
                wrapApiVariable(a.h, vs[i + 2],
                                pairName(start + (i \div 2), <<"v", "a", "l", "u", "e">>),
                                <<>>, customFormatters),
                vs, i, start, customFormatters)

\* line 169: value.Name = keyname[1 : len(keyname)-1]
foldedValue(value, keyname) == [value EXCEPT !.Name = SubSeq(keyname, 2, Len(keyname) - 1)]

\* lines 156-182, from zero-based index i of vs
wrapMapFrom(h, vs, i, start, customFormatters) ==
    IF i >= Len(vs) THEN [h |-> h, ids |-> <<>>]
    ELSE IF keyName(vs[i + 1]) # <<>>
    THEN foldedPair(wrapApiVariable(h, foldedValue(vs[i + 2], keyName(vs[i + 1])),
                                    keyName(vs[i + 1]), <<>>, customFormatters),
                    vs, i, start, customFormatters)
    ELSE keyThenValue(wrapApiVariable(h, vs[i + 1],
                                      pairName(start + (i \div 2), <<"k", "e", "y">>),
                                      <<>>, customFormatters),
                      vs, i, start, customFormatters)

\* line 217: the child a, then the rest of the loop
childThenRest(a, vs, i, kind, start, expr, customFormatters) ==
    appendIds(<<a.id>>, wrapSeqFrom(a.h, vs, i + 1, kind, start, expr, customFormatters))

\* lines 184-218, from zero-based index i of vs
wrapSeqFrom(h, vs, i, kind, start, expr, customFormatters) ==
    IF i >= Len(vs) THEN [h |-> h, ids |-> <<>>]
    ELSE childThenRest(wrapApiVariable(h, vs[i + 1], childName(vs[i + 1], kind, start, i),
                                       childExpr(vs[i + 1], kind, start, i, expr),
                                       customFormatters),
                       vs, i, kind, start, expr, customFormatters)

wrapApiVariables(h, vs, kind, start, expr, customFormatters) ==
    IF kind = "Map" THEN wrapMapFrom(h, vs, 0, start, customFormatters)
    ELSE wrapSeqFrom(h, vs, 0, kind, start, expr, customFormatters)

\* ------------------------------------------------------- garbage collection
Range(f) == {f[i] : i \in DOMAIN f}

RECURSIVE ReachFrom(_, _, _)
ReachFrom(h, frontier, seen) ==
    IF frontier = {} THEN seen
    ELSE CHOOSE r \in {ReachFrom(h, p.next, p.now) :
                          p \in {[now |-> seen \cup frontier,
                                  next |-> UNION {Range(h[n].Children) : n \in frontier}
                                              \ (seen \cup frontier \cup {Nil})]}} : TRUE

\* the nodes reachable from the pointers in roots
Reach(h, roots) == ReachFrom(h, roots \ {Nil}, {})

\* the heap once the nodes nothing points to are freed
Collect(h, roots) ==
    CHOOSE c \in {[n \in NodeIds |-> IF n \in live THEN h[n] ELSE NoNode] :
                     live \in {Reach(h, roots)}} : TRUE

\* --------------------------------------------------------------- debuggee
\* The debugger service answers from the stopped debuggee below.  SliceLen and
\* MapLen are the lengths of its slice s and its map m; a listing loads
\* ShortLoad elements of a container and a "long" evaluation LongLoad.
SliceLen == 3
MapLen == 2
ShortLoad == 1
LongLoad == 1

T_int == <<"i", "n", "t">>
T_sliceInt == <<"[", "]">> \o T_int
T_T == <<"T">>
T_ptrT == <<"*", "T">>
T_sliceT == <<"[", "]", "T">>
T_string == <<"s", "t", "r", "i", "n", "g">>
T_map == <<"m", "a", "p", "[">> \o T_string \o <<"]">> \o T_sliceInt

IntAt(name, addr, val) == RawVar("Int", T_int, name, addr, 0, FALSE, val, 0, <<>>)

Min(a, b) == IF a < b THEN a ELSE b

\* elements from..to-1 (zero-based) of the slice s at address 1
SElems(from, to) == [k \in 1..(IF to > from THEN to - from ELSE 0) |->
                        IntAt(<<>>, 10 + from + k - 1, <<Digit[from + k]>>)]
\* a value of the map m: a slice of one int
MValue(addr) == RawVar("Slice", T_sliceInt, <<>>, addr, 1, FALSE, <<>>, 0,
                       <<IntAt(<<>>, addr + 10, <<"7">>)>>)
\* a string of the debuggee
StrAt(addr, val) == RawVar("String", T_string, <<>>, addr, Len(val), FALSE, val, 0, <<>>)
\* the key of pair e (zero-based) of the map m: a short string when e is even,
\* a string of 20 characters when e is odd
LongKey == [i \in 1..19 |-> "k"]
MKey(e) == IF e % 2 = 0 THEN StrAt(40 + e, <<"a", Digit[e + 1]>>)
           ELSE StrAt(40 + e, LongKey \o <<Digit[e + 1]>>)
\* pairs from..to-1 of the map m at address 2, flattened key, value, key, value
MPairs(from, to) == [k \in 1..(IF to > from THEN 2 * (to - from) ELSE 0) |->
                        IF k % 2 = 1
                        THEN MKey(from + ((k + 1) \div 2) - 1)
                        ELSE MValue(20 + from + (k \div 2) - 1)]

TField == IntAt(<<"f">>, 3, <<"5">>)
\* the struct t at address 3, with its field and cut off by the recursion limit
TFull(name, onlyAddr) == RawVar("Struct", T_T, name, 3, 1, onlyAddr, <<>>, 0, <<TField>>)
TBare(name, onlyAddr, line) == RawVar("Struct", T_T, name, 3, 1, onlyAddr, <<>>, line, <<>>)

Loc_s == RawVar("Slice", T_sliceInt, <<"s">>, 1, SliceLen, FALSE, <<>>, 3,
                SElems(0, Min(ShortLoad, SliceLen)))
Loc_m == RawVar("Map", T_map, <<"m">>, 2, MapLen, FALSE, <<>>, 2,
                MPairs(0, Min(ShortLoad, MapLen)))
Loc_t == TBare(<<"t">>, FALSE, 1)
Loc_p == RawVar("Ptr", T_ptrT, <<"p">>, 4, 1, FALSE, <<>>, 4, <<TBare(<<>>, TRUE, 0)>>)
\* the slice q of structs at address 5, its element loaded or cut off
QVal(name, line, elem) == RawVar("Slice", T_sliceT, name, 5, 1, FALSE, <<>>, line, <<elem>>)
Loc_q == QVal(<<"q">>, 1, TBare(<<>>, FALSE, 0))

\* the list node at address 8 whose field next points to the node itself, and
\* the pointer n to it at address 7: cut off by the recursion limit below every
\* pointer, loaded one level further by every evaluation
T_N == <<"N">>
T_ptrN == <<"*", "N">>
NBare(onlyAddr) == RawVar("Struct", T_N, <<>>, 8, 1, onlyAddr, <<>>, 0, <<>>)
PtrN(name, addr, line) == RawVar("Ptr", T_ptrN, name, addr, 1, FALSE, <<>>, line, <<NBare(TRUE)>>)
NFull == RawVar("Struct", T_N, <<>>, 8, 1, FALSE, <<>>, 0, <<PtrN(<<"n", "e", "x", "t">>, 8, 0)>>)
Loc_n == PtrN(<<"n">>, 7, 1)

\* the number c of the type C, which has a custom formatter, at address 70; the
\* character r at address 71; the pointer tp at address 79 to the time.Time at
\* address 80, whose first field wall has the address of the struct
T_C == <<"C">>
T_ptrTime == <<"*">> \o T_time
T_uint64 == <<"u", "i", "n", "t", "6", "4">>
T_int64 == <<"i", "n", "t", "6", "4">>
T_ptrLoc == <<"*", "t", "i", "m", "e", ".", "L", "o", "c", "a", "t", "i", "o", "n">>
Loc_c == RawVar("Int", T_C, <<"c">>, 70, 0, FALSE, <<"6", "5">>, 1, <<>>)
Loc_r == RawVar("Int", T_int32, <<"r">>, 71, 0, FALSE, <<"6", "5">>, 2, <<>>)
\* wall of 2021-01-01T00:00:00Z with the monotonic bit, and its ext
WallValue == <<"1", "3", "8", "3", "1", "6", "0", "0", "5", "0", "3", "5", "2", "9", "6", "6",
               "8", "6", "0", "8">>
ExtValue == <<"5", "0", "0", "0", "0", "0", "0", "0", "0", "0">>
TimeFields ==
    <<RawVar("Uint64", T_uint64, <<"w", "a", "l", "l">>, 80, 0, FALSE, WallValue, 0, <<>>),
      RawVar("Int64", T_int64, <<"e", "x", "t">>, 88, 0, FALSE, ExtValue, 0, <<>>),
      RawVar("Ptr", T_ptrLoc, <<"l", "o", "c">>, 96, 1, FALSE, <<>>, 0,
             <<RawVar("Struct", Tail(T_ptrLoc), <<>>, 0, 0, FALSE, <<>>, 0, <<>>)>>)>>
TimeAt(onlyAddr, fields) == RawVar("Struct", T_time, <<>>, 80, 3, onlyAddr, <<>>, 0, fields)
Loc_tp == RawVar("Ptr", T_ptrTime, <<"t", "p">>, 79, 1, FALSE, <<>>, 1, <<TimeAt(TRUE, <<>>)>>)

\* the slice u at address 11 of one struct without fields, at address 12
T_E == <<"E">>
T_sliceE == <<"[", "]", "E">>
UVal(name, line) ==
    RawVar("Slice", T_sliceE, name, 11, 1, FALSE, <<>>, line,
           <<RawVar("Struct", T_E, <<>>, 12, 0, FALSE, <<>>, 0, <<>>)>>)
Loc_u == UVal(<<"u">>, 1)

\* "*(*%q)(%#x)", line 970
derefExpr(type, addr) ==
    <<"*", "(", "*">> \o Quote(type) \o <<")", "(">> \o Hex(addr) \o <<")">>
\* "(*(*%q)(%#x))[%d:]", lines 926 and 948
tailExpr(type, addr, from) ==
    <<"(", "*", "(", "*">> \o Quote(type) \o <<")", "(">> \o Hex(addr)
        \o <<")", ")", "[">> \o Itoa(from) \o <<":", "]">>

\* client.EvalVariable: the values the service may answer expr with (it may
\* also answer any expr with an error)
EvalVariable(expr) ==
    {RawVar("Slice", T_sliceInt, <<>>, 1, SliceLen - n, FALSE, <<>>, 0,
            SElems(n, Min(n + LongLoad, SliceLen))) :
        n \in {k \in 0..SliceLen : expr = tailExpr(T_sliceInt, 1, k)}}
    \cup
    {RawVar("Map", T_map, <<>>, 2, MapLen - n, FALSE, <<>>, 0,
            MPairs(n, Min(n + LongLoad, MapLen))) :
        n \in {k \in 0..MapLen : expr = tailExpr(T_map, 2, k)}}
    \cup
    (IF expr = derefExpr(T_T, 3) THEN {TFull(<<>>, FALSE)} ELSE {})
    \cup
    (IF expr = derefExpr(T_N, 8) THEN {NFull} ELSE {})
    \cup
    (IF expr = derefExpr(T_time, 80) THEN {TimeAt(FALSE, TimeFields)} ELSE {})
    \cup
    (IF expr = derefExpr(T_sliceT, 5)
     THEN {QVal(<<>>, 0, TBare(<<>>, FALSE, 0)), QVal(<<>>, 0, TFull(<<>>, FALSE))}
     ELSE {})
    \cup
    (IF expr = derefExpr(T_sliceE, 11) THEN {UVal(<<>>, 0)} ELSE {})

\* the int t at address 9, declared at line 5 in a block of the function that
\* declared the struct t at line 1, and listed before it
Loc_t5 == RawVar("Int", T_int, <<"t">>, 9, 0, FALSE, <<"5">>, 5, <<>>)

\* the struct h at address 110 with two interfaces: e holds a nil *int and
\* f a nil *T; the service does not load what a nil pointer points to, which
\* has the address 0 and no children
T_H == <<"H">>
T_error == <<"e", "r", "r", "o", "r">>
T_ptrInt == <<"*", "i", "n", "t">>
Holding(name, addr, type, pointee) ==
    RawVar("Interface", T_error, name, addr, 0, FALSE, <<>>, 0,
           <<RawVar("Ptr", type, <<"d", "a", "t", "a">>, addr + 8, 1, FALSE, <<>>, 0,
                    <<pointee>>)>>)
Loc_h ==
    RawVar("Struct", T_H, <<"h">>, 110, 2, FALSE, <<>>, 1,
           <<Holding(<<"e">>, 110, T_ptrInt, IntAt(<<>>, 0, <<>>)),
             Holding(<<"f">>, 126, T_ptrT,
                     RawVar("Struct", T_T, <<>>, 0, 1, FALSE, <<>>, 0, <<>>))>>)

\* the interface i at address 130 holding a *[]int that points to the slice
\* at address 1, of which the first elements are loaded
T_ptrSliceInt == <<"*">> \o T_sliceInt
Loc_i ==
    Holding(<<"i">>, 130, T_ptrSliceInt,
            RawVar("Slice", T_sliceInt, <<>>, 1, SliceLen, FALSE, <<>>, 0,
                   SElems(0, Min(ShortLoad, SliceLen))))

\* the expression q[0:1] and its value: a slice made by the evaluation, which
\* has no address of its own (Addr 0), with its element cut off
E_reslice == <<"q", "[", "0", ":", "1", "]">>
Resliced ==
    RawVar("Slice", T_sliceT, <<>>, 0, 1, FALSE, <<>>, 0, <<TBare(<<>>, FALSE, 0)>>)

ErrText == <<"e", "r", "r">>
\* the error of a listing that failed
ListErr == <<"l", "i", "s", "t">>

\* A session is one debuggee and one way of working with it: the scopes
\* client.ListLocalVariables and client.ListPackageVariables answer with, the
\* panels that are shown, and whether the user adds watch expressions; errs are
\* the errors a listing may return (<<>> is nil) and print the values of the
\* expressions the user prints.
Session(ls, gs, ps, w) ==
    [locals |-> ls, globals |-> gs, panels |-> ps, watch |-> w, menu |-> FALSE,
     formatters |-> {}, errs |-> {<<>>}, print |-> {}, display |-> {}]
\* a session in which the user picks number modes in the contextual menu, with
\* the types fs of conf.CustomFormatters
MenuSession(ls, fs) ==
    [locals |-> ls, globals |-> {}, panels |-> {"locals"}, watch |-> FALSE, menu |-> TRUE,
     formatters |-> fs, errs |-> {<<>>}, print |-> {}, display |-> {}]
\* a session in which the user types "display q[0:1]"
DisplaySession(ls) == [Session(ls, {}, {"locals"}, FALSE) EXCEPT !.display = {E_reslice}]
\* a session in which a listing may fail
FailingSession(ls, gs) ==
    [Session(ls, gs, {"locals", "globals"}, FALSE) EXCEPT !.errs = {<<>>, ListErr}]
Sessions ==
    {Session({<<Loc_s>>}, {}, {"locals"}, FALSE),
     Session({<<Loc_m, Loc_p>>}, {}, {"locals"}, FALSE),
     Session({<<Loc_t, Loc_q>>}, {}, {"locals"}, FALSE),
     Session({<<Loc_t>>}, {<<TBare(<<"g">>, FALSE, 0)>>}, {"locals", "globals"}, FALSE),
     Session({<<Loc_t>>}, {}, {"locals"}, TRUE),
     Session({<<Loc_n>>}, {}, {"locals"}, FALSE),
     MenuSession({<<Loc_c, Loc_r>>}, {T_C}),
     MenuSession({<<Loc_tp>>}, {}),
     MenuSession({<<Loc_h>>}, {}),
     FailingSession({<<Loc_t>>}, {<<TBare(<<"g">>, FALSE, 0)>>}),
     Session({<<Loc_h>>}, {}, {"locals"}, FALSE),
     Session({<<Loc_t5, Loc_t>>}, {}, {"locals"}, FALSE),
     Session({<<Loc_u>>}, {}, {"locals"}, FALSE),
     Session({<<Loc_i>>}, {}, {"locals"}, FALSE),
     DisplaySession({<<Loc_t5>>})}
\* Maps for wrapping alone: a scope with the one map w at address 6 whose pairs
\* are drawn from WrapKeys x WrapValues, at most MaxPairs of them.
MaxPairs == 2
T_bool == <<"b", "o", "o", "l">>
WrapKeys ==
    {IntAt(<<>>, 50, <<"4">>),
     StrAt(51, <<"a", "b">>),
     StrAt(52, LongKey),
     StrAt(53, LongKey \o <<"9">>),
     RawVar("Bool", T_bool, <<>>, 54, 0, FALSE, <<"t", "r", "u", "e">>, 0, <<>>),
     TFull(<<>>, FALSE)}
WrapValues == {IntAt(<<>>, 60, <<"7">>), MValue(61)}
RECURSIVE PairSeqs(_)
PairSeqs(n) ==
    IF n = 0 THEN {<<>>}
    ELSE PairSeqs(n - 1)
         \cup {ps \o <<k, v>> : ps \in {q \in PairSeqs(n - 1) : Len(q) = 2 * (n - 1)},
                                k \in WrapKeys, v \in WrapValues}
Loc_w(ps) == RawVar("Map", T_map, <<"w">>, 6, Len(ps) \div 2, FALSE, <<>>, 1, ps)
WrapSessions ==
    {Session({<<Loc_w(ps)>>}, {}, {"locals"}, FALSE) : ps \in PairSeqs(MaxPairs) \ {<<>>}}
\* Values for formatting alone.  A number v at address 100, of a kind, a type
\* and a value: Delve gives every signed integer the kind Int and every
\* unsigned one the kind Uint, whatever its size.
NumberValues ==
    {<<"3", "1">>, <<"3", "2">>, <<"3", "9">>, <<"6", "5">>, <<"9", "2">>, <<"1", "2", "6">>,
     <<"1", "2", "7">>, <<"2", "0", "0">>, <<"-", "6", "5">>, <<>>}
NumberAt(kind, type, name, val) == RawVar(kind, type, name, 100, 0, FALSE, val, 1, <<>>)
Numbers ==
    {NumberAt(kind, type, <<"v">>, val) :
        kind \in {"Int", "Uint"}, type \in {T_uint8, T_int32, T_int, T_C}, val \in NumberValues}

\* the fields wall and ext of a time.Time as the service may answer them
WallField(val) == RawVar("Uint64", T_uint64, <<"w", "a", "l", "l">>, 80, 0, FALSE, val, 0, <<>>)
ExtField(val) == RawVar("Int64", T_int64, <<"e", "x", "t">>, 88, 0, FALSE, val, 0, <<>>)
\* 2^64 and 2^63, one more than a uint64 and an int64 can hold
TwoTo64 == <<"1", "8", "4", "4", "6", "7", "4", "4", "0", "7", "3", "7", "0", "9", "5", "5",
             "1", "6", "1", "6">>
TwoTo63 == <<"9", "2", "2", "3", "3", "7", "2", "0", "3", "6", "8", "5", "4", "7", "7", "5",
             "8", "0", "8">>
\* the largest uint64 and the largest int64
MaxUint64 == <<"1", "8", "4", "4", "6", "7", "4", "4", "0", "7", "3", "7", "0", "9", "5", "5",
               "1", "6", "1", "5">>
MaxInt64 == <<"9", "2", "2", "3", "3", "7", "2", "0", "3", "6", "8", "5", "4", "7", "7", "5",
              "8", "0", "7">>
\* WallValue with 999999999 nanoseconds in its low 30 bits
WallValueNanos == <<"1", "3", "8", "3", "1", "6", "0", "0", "5", "0", "4", "5", "2", "9", "6", "6", "8", "6", "0", "7">>
\* seconds from 1 January of year 1 to 2021-01-01T00:00:00Z
Ext2021 == <<"6", "3", "7", "4", "5", "0", "5", "6", "0", "0", "0">>
\* int64(maxAddSeconds / time.Second), and one more
ExtChunk == <<"9", "2", "2", "3", "3", "7", "2", "0", "3", "6">>
ExtChunkUp == <<"9", "2", "2", "3", "3", "7", "2", "0", "3", "7">>
WallValues == {WallValue, WallValueNanos, TwoTo63, MaxUint64, <<"0">>, <<"1", "2", "3">>}
ExtValues ==
    {ExtValue, <<"0">>, <<"1">>, Ext2021, ExtChunk, ExtChunkUp, <<"-", "1">>,
     <<"-", "8", "6", "4", "0", "0">>, <<"-">> \o ExtChunk, <<"-">> \o ExtChunkUp,
     <<"-", "5", "0", "0", "0", "0", "0", "0", "0", "0", "0">>}
BadWalls == {<<>>, <<"-", "1">>, <<"x">>, TwoTo64}
BadExts == {<<>>, <<"1", ".", "5">>, TwoTo63}
Unread(v) == [v EXCEPT !.Unreadable = ErrText]
TimeFieldSeqs ==
    {<<WallField(w), ExtField(e)>> : w \in WallValues, e \in ExtValues}
    \cup {<<WallField(w), ExtField(ExtValue)>> : w \in BadWalls}
    \cup {<<WallField(WallValue), ExtField(e)>> : e \in BadExts}
    \cup {<<>>, <<WallField(WallValue)>>, <<ExtField(ExtValue)>>,
           <<ExtField(ExtValue), WallField(WallValue)>>,
           <<Unread(WallField(WallValue)), ExtField(ExtValue)>>,
           <<WallField(WallValue), Unread(ExtField(ExtValue))>>}
\* the time.Time v at address 80 with the value string raw
TimeVar(raw, fields) ==
    RawVar("Struct", T_time, <<"v">>, 80, Len(fields), FALSE, raw, 1, fields)
Times == {TimeVar(raw, fields) : raw \in {<<>>, <<"?">>}, fields \in TimeFieldSeqs}

\* the struct v at address 90 with a number c of the type C and a time; a
\* pointer to it, an interface holding it and a slice of it; maps from int and
\* from bool to C; a complex number with its two parts; a channel
T_S == <<"S">>
T_ptrS == <<"*", "S">>
T_iface == <<"I">>
T_sliceS == <<"[", "]", "S">>
T_mapC == <<"m", "a", "p", "[", "i", "n", "t", "]", "C">>
T_mapBoolC == <<"m", "a", "p", "[", "b", "o", "o", "l", "]", "C">>
T_complex == <<"c", "o", "m", "p", "l", "e", "x", "1", "2", "8">>
T_float == <<"f", "l", "o", "a", "t", "6", "4">>
T_chan == <<"c", "h", "a", "n", " ", "i", "n", "t">>
CAt(name, addr) == RawVar("Int", T_C, name, addr, 0, FALSE, <<"7">>, 0, <<>>)
SFields ==
    <<CAt(<<"c">>, 90),
      RawVar("Struct", T_time, <<"t">>, 80, 2, FALSE, <<>>, 0,
             <<WallField(WallValue), ExtField(ExtValue)>>)>>
SVar(name) == RawVar("Struct", T_S, name, 90, 2, FALSE, <<>>, 1, SFields)
FloatAt(name, addr) == RawVar("Float64", T_float, name, addr, 0, FALSE, <<"1">>, 0, <<>>)
Nested ==
    {SVar(<<"v">>),
     RawVar("Ptr", T_ptrS, <<"v">>, 89, 1, FALSE, <<>>, 1, <<SVar(<<>>)>>),
     RawVar("Interface", T_iface, <<"v">>, 87, 0, FALSE, <<>>, 1, <<SVar(<<"d", "a", "t", "a">>)>>),
     RawVar("Slice", T_sliceS, <<"v">>, 86, 1, FALSE, <<>>, 1, <<SVar(<<>>)>>),
     RawVar("Map", T_mapC, <<"v">>, 85, 1, FALSE, <<>>, 1,
            <<IntAt(<<>>, 84, <<"4">>), CAt(<<>>, 83)>>),
     RawVar("Map", T_mapBoolC, <<"v">>, 85, 1, FALSE, <<>>, 1,
            <<RawVar("Bool", T_bool, <<>>, 84, 0, FALSE, <<"t", "r", "u", "e">>, 0, <<>>),
              CAt(<<>>, 83)>>),
     RawVar("Complex128", T_complex, <<"v">>, 82, 0, FALSE, <<"(", "1", "+", "1", "i", ")">>, 1,
            <<FloatAt(<<"r", "e", "a", "l">>, 82), FloatAt(<<"i", "m", "a", "g", "i", "n", "a", "r", "y">>, 83)>>),
     RawVar("Chan", T_chan, <<"v">>, 81, 0, FALSE, <<>>, 1,
            <<RawVar("Uint", <<"u", "i", "n", "t">>, <<"q", "c", "o", "u", "n", "t">>, 81, 0, FALSE,
                     <<"0">>, 0, <<>>)>>)}

FormatValues == Numbers \cup Times \cup Nested
\* conf.CustomFormatters: the sets of types the user may have formatters for
FormatterSets == {{}, {T_C}, {T_C, T_uint8, T_time}}
\* a session in which the user prints the value v, which is also the one local
FormatSession(v, fs) ==
    [Session({<<v>>}, {}, {"locals"}, FALSE) EXCEPT !.formatters = fs, !.print = {v}]
FormatSessions == {FormatSession(v, fs) : v \in FormatValues, fs \in FormatterSets}

\* evalScopedExpr of a watch expression: a value, or a variable that only carries
\* the error of the evaluation
WatchValues == {TBare(<<>>, FALSE, 0),
                [RawVar("Invalid", <<>>, <<>>, 0, 0, FALSE, <<>>, 0, <<>>)
                    EXCEPT !.Unreadable = ErrText]}
\* evalScopedExpr, as called at line 416 and at src/commands.go line 841
evalScopedExpr(expr) == IF expr = E_reslice THEN {Resliced} ELSE WatchValues
\* the values of all the watch expressions, in their order
evalAll(es) ==
    {vals \in [1..Len(es) -> WatchValues \cup {Resliced}] :
        \A i \in 1..Len(es) : vals[i] \in evalScopedExpr(es[i])}
ArgScopes == {<<>>}

\* the variables of the variable panels and those of the command line
infoVars == <<session, varFormat, heap, locals, globals, exprs, watch, selected, mu, running, tasks,
              exprTasks, render, redraw, loads, done, printed, drawn, dropped>>
cmdVars == <<cmds, lastCmd, found, helped, configured, split, restarted, breakpoints, created, stepped>>
vars == <<infoVars, cmdVars>>

\* ------------------------------------------- the command line, commands.go
\* unicode.IsSpace, for the characters used here
IsSpace(ch) == ch \in {" ", "\t", "\n"}

RECURSIVE splitFrom(_, _, _, _, _, _)
\* the loop of lines 481-512 from character i on, and lines 514-518
splitFrom(in, i, quote, state, r, buf) ==
    IF i > Len(in) THEN (IF Len(buf) # 0 THEN Append(r, buf) ELSE r)
    ELSE LET ch == in[i]
         IN CASE state = "inSpace" ->
                   IF ch = quote THEN splitFrom(in, i + 1, quote, "inQuote", r, buf)
                   ELSE IF ~IsSpace(ch)
                   THEN splitFrom(in, i + 1, quote, "inField", r, Append(buf, ch))
                   ELSE splitFrom(in, i + 1, quote, "inSpace", r, buf)
              [] state = "inField" ->
                   IF ch = quote THEN splitFrom(in, i + 1, quote, "inQuote", r, buf)
                   ELSE IF IsSpace(ch)
                   THEN splitFrom(in, i + 1, quote, "inField", Append(r, buf), <<>>)
                   ELSE splitFrom(in, i + 1, quote, "inField", r, Append(buf, ch))
              [] state = "inQuote" ->
                   IF ch = quote THEN splitFrom(in, i + 1, quote, "inField", r, buf)
                   ELSE IF ch = "\\"
                   THEN splitFrom(in, i + 1, quote, "inQuoteEscaped", r, buf)
                   ELSE splitFrom(in, i + 1, quote, "inQuote", r, Append(buf, ch))
              [] state = "inQuoteEscaped" ->
                   splitFrom(in, i + 1, quote, "inQuote", r, Append(buf, ch))

\* lines 469-521
splitQuotedFields(in, quote) == splitFrom(in, 1, quote, "inSpace", <<>>, <<>>)

RECURSIVE TrimLeft(_)
TrimLeft(str) == IF str # <<>> /\ IsSpace(str[1]) THEN TrimLeft(Tail(str)) ELSE str
RECURSIVE TrimRight(_)
TrimRight(str) ==
    IF str # <<>> /\ IsSpace(str[Len(str)]) THEN TrimRight(SubSeq(str, 1, Len(str) - 1))
    ELSE str
\* strings.TrimSpace
TrimSpace(str) == TrimRight(TrimLeft(str))

\* the arguments the user gives to restart: every string of at most MaxArgLen
\* characters of ArgChars, and some with quotes
MaxArgLen == 5
ArgChars == {"a", "b", " ", "\t"}
RECURSIVE StringsUpTo(_, _)
StringsUpTo(chars, n) ==
    IF n = 0 THEN {<<>>}
    ELSE StringsUpTo(chars, n - 1)
         \cup {Append(str, c) : str \in {t \in StringsUpTo(chars, n - 1) : Len(t) = n - 1},
                                c \in chars}
RestartInputs ==
    StringsUpTo(ArgChars, MaxArgLen)
    \cup {<<"-", "-", " ", "a">>, <<"'", "a", " ", "b", "'", " ", "a">>, <<"'", "'", " ", "a">>}

\* restart, lines 395-408: the arguments handed on to doRestart or doRebuild,
\* for a build command that is not "test"
Restart ==
    /\ \E args \in RestartInputs :
         \E a \in {TrimSpace(args)} :
            IF a # <<>>
            THEN \E argv \in {splitQuotedFields(a, "'")} :
                    /\ split' = [in |-> a, quote |-> "'", out |-> argv]
                    /\ restarted' =
                          IF Len(argv) > 0
                          THEN [resetArgs |-> TRUE,
                                newArgs |-> IF argv[1] = <<"-", "-">> THEN Tail(argv) ELSE argv]
                          ELSE [resetArgs |-> FALSE, newArgs |-> <<>>]
            ELSE /\ restarted' = [resetArgs |-> FALSE, newArgs |-> <<>>]
                 /\ UNCHANGED split
    /\ UNCHANGED <<infoVars, cmds, lastCmd, found, helped, configured, breakpoints, created, stepped>>

\* the commands of DebugCommands that are modelled, lines 94, 97 and 118, in
\* the order of line 197; nullCommand is lines 207-209
S_clear == <<"c", "l", "e", "a", "r">>
S_next == <<"n", "e", "x", "t">>
S_restart == <<"r", "e", "s", "t", "a", "r", "t">>
DebugCommands ==
    <<[aliases |-> <<S_clear>>, cmdFn |-> "clear"],
      [aliases |-> <<S_next, <<"n">>>>, cmdFn |-> "next"],
      [aliases |-> <<S_restart, <<"r">>>>, cmdFn |-> "restart"]>>

NoSplit == [in |-> <<>>, quote |-> "", out |-> <<>>]
NoFind == [cmdstr |-> <<>>, fn |-> "none", err |-> <<>>]
CmdStart ==
    /\ cmds = DebugCommands
    /\ lastCmd = "nil"
    /\ found = NoFind
    /\ helped = [panic |-> FALSE, names |-> <<>>]
    /\ configured = "none"
    /\ split = NoSplit
    /\ restarted = [resetArgs |-> FALSE, newArgs |-> <<>>]
    /\ breakpoints = {}
    /\ created = 0
    /\ stepped = [op |-> "none", bp |-> 0, err |-> "nil"]

\* command.match, lines 40-48
match(c, cmdstr) == \E i \in 1..Len(c.aliases) : c.aliases[i] = cmdstr

\* "command %q not available", line 1587
S_command == <<"c", "o", "m", "m", "a", "n", "d", " ">>
S_notAvailable == <<" ", "n", "o", "t", " ", "a", "v", "a", "i", "l", "a", "b", "l", "e">>
notAvailable(cmdstr) == S_command \o Quote(cmdstr) \o S_notAvailable

\* a Find that records every function it returns as the last command
FindRecordingAll(cs, last, cmdstr) ==
    IF cmdstr = <<>>
    THEN [fn |-> IF last # "nil" THEN last ELSE "nullCommand", err |-> <<>>, lastCmd |-> last]
    ELSE IF \E i \in 1..Len(cs) : match(cs[i], cmdstr)
    THEN LET i == CHOOSE i \in 1..Len(cs) :
                     match(cs[i], cmdstr) /\ \A j \in 1..(i - 1) : ~match(cs[j], cmdstr)
         IN [fn |-> cs[i].cmdFn, err |-> <<>>, lastCmd |-> cs[i].cmdFn]
    ELSE [fn |-> "notAvailable", err |-> notAvailable(cmdstr), lastCmd |-> "notAvailable"]

\* Commands.Find, lines 1570-1589: the function returned, the error a function
\* made at lines 1586-1588 fails with, and c.lastCmd after the call
Find(cs, last, cmdstr) ==
    IF cmdstr = <<>>
    THEN [fn |-> IF last # "nil" THEN last ELSE "nullCommand", err |-> <<>>, lastCmd |-> last]
    ELSE IF \E i \in 1..Len(cs) : match(cs[i], cmdstr)
    THEN LET i == CHOOSE i \in 1..Len(cs) :
                     match(cs[i], cmdstr) /\ \A j \in 1..(i - 1) : ~match(cs[j], cmdstr)
         IN [fn |-> cs[i].cmdFn, err |-> <<>>, lastCmd |-> cs[i].cmdFn]
    ELSE [fn |-> "notAvailable", err |-> notAvailable(cmdstr), lastCmd |-> last]

\* the command strings the user types
FindInputs ==
    {<<>>, S_next, <<"n">>, <<"x">>, <<"z">>}

\* a call of Commands.Find; a panic ends the program
DoFind ==
    /\ ~helped.panic
    /\ \E cmdstr \in FindInputs :
         \E f \in {Find(cmds, lastCmd, cmdstr)} :
            /\ found' = [cmdstr |-> cmdstr, fn |-> f.fn, err |-> f.err]
            /\ lastCmd' = f.lastCmd
    /\ UNCHANGED <<infoVars, cmds, helped, configured, split, restarted, breakpoints, created,
                   stepped>>

\* lines 992-1000: the first alias equal to a, in the order of the commands,
\* is removed
RemoveAt(seq, i) == SubSeq(seq, 1, i - 1) \o SubSeq(seq, i + 1, Len(seq))
deleteAlias(cs, a) ==
    IF \E i \in 1..Len(cs) : match(cs[i], a)
    THEN LET i == CHOOSE i \in 1..Len(cs) : match(cs[i], a) /\ \A j \in 1..(i - 1) : ~match(cs[j], a)
             k == CHOOSE k \in 1..Len(cs[i].aliases) :
                     cs[i].aliases[k] = a /\ \A l \in 1..(k - 1) : cs[i].aliases[l] # a
         IN [cmds |-> [cs EXCEPT ![i].aliases = RemoveAt(cs[i].aliases, k)], err |-> "nil"]
    ELSE [cmds |-> cs, err |-> "could not find command"]

\* lines 1002-1012: alias is appended to the first command with the alias cmd
addAlias(cs, cmd, alias) ==
    IF \E i \in 1..Len(cs) : match(cs[i], cmd)
    THEN LET i == CHOOSE i \in 1..Len(cs) :
                     match(cs[i], cmd) /\ \A j \in 1..(i - 1) : ~match(cs[j], cmd)
         IN [cmds |-> [cs EXCEPT ![i].aliases = Append(cs[i].aliases, alias)], err |-> "nil"]
    ELSE [cmds |-> cs, err |-> "could not find command"]

\* configureSetAlias, lines 988-1015
configureSetAlias(cs, argv) ==
    CASE Len(argv) = 1 -> deleteAlias(cs, argv[1])
      [] Len(argv) = 2 -> addAlias(cs, argv[1], argv[2])
      [] OTHER -> [cmds |-> cs, err |-> "wrong number of arguments"]

\* what the user writes after "config alias "
MaxAliases == 2
ConfigInputs ==
    {S_clear, <<"n">>, <<"x">>, S_next \o <<" ", "x">>, S_clear \o <<" ", "x">>,
     S_next \o <<" ", " ", "x">>, <<"\"">> \o S_next \o <<"\"", " ", "n">>}

\* configCommand with the prefix "alias ", lines 980-983, and
\* configureSetAlias; no command gets more than MaxAliases aliases
ConfigureSetAlias ==
    /\ ~helped.panic
    /\ \E rest \in ConfigInputs :
         \E argv \in {splitQuotedFields(TrimSpace(rest), "\"")} :
         \E c \in {configureSetAlias(cmds, argv)} :
            /\ \A i \in 1..Len(c.cmds) : Len(c.cmds[i].aliases) <= MaxAliases
            /\ split' = [in |-> TrimSpace(rest), quote |-> "\"", out |-> argv]
            /\ cmds' = c.cmds
            /\ configured' = c.err
    /\ UNCHANGED <<infoVars, lastCmd, found, helped, restarted, breakpoints, created, stepped>>

\* Commands.help without an argument, lines 255-268: the first alias of every
\* command is printed; cmd.aliases[0] of a command without aliases panics
Help ==
    /\ ~helped.panic
    /\ helped' = IF \E i \in 1..Len(cmds) : Len(cmds[i].aliases) = 0
                 THEN [panic |-> TRUE, names |-> <<>>]
                 ELSE [panic |-> FALSE, names |-> [i \in 1..Len(cmds) |-> cmds[i].aliases[1]]]
    /\ UNCHANGED <<infoVars, cmds, lastCmd, found, configured, split, restarted, breakpoints,
                   created, stepped>>

\* The service: client.CreateBreakpoint gives the breakpoint the next ID,
\* client.ClearBreakpoint removes it; every call of the client may fail.  At
\* most MaxBreakpoints breakpoints are created.
MaxBreakpoints == 5

\* stepInto, lines 751-790.  fails is the call that returns an error ("none"
\* when every call succeeds) and bpfound whether a thread stopped at the
\* breakpoint; stepIntoFirst is lines 742-749.
StepIntoOutcomes == {"stacktrace", "no stack", "create", "next", "continue", "step", "none"}
StepInto ==
    /\ created < MaxBreakpoints
    /\ \E fails \in StepIntoOutcomes, bpfound \in BOOLEAN :
         IF fails \in {"stacktrace", "no stack", "create"}
         THEN /\ stepped' = [op |-> "stepInto", bp |-> 0, err |-> fails]
              /\ UNCHANGED <<breakpoints, created>>
         ELSE /\ created' = created + 1
              \* client.ClearBreakpoint(bp.ID) at line 770 or at line 775
              /\ breakpoints' = (breakpoints \cup {created + 1}) \ {created + 1}
              /\ stepped' = [op |-> "stepInto", bp |-> created + 1,
                             err |-> IF fails \in {"next", "continue"} THEN fails
                                     ELSE IF bpfound THEN (IF fails = "step" THEN "step" ELSE "nil")
                                     ELSE "nil"]
    /\ UNCHANGED <<infoVars, cmds, lastCmd, found, helped, configured, split, restarted>>

\* continueToLine, lines 1601-1622
ContinueToLineOutcomes == {"create", "stepout", "continue", "none"}
ContinueToLine ==
    /\ created < MaxBreakpoints
    /\ \E fails \in ContinueToLineOutcomes :
         IF fails = "create"
         THEN /\ stepped' = [op |-> "continueToLine", bp |-> 0, err |-> fails]
              /\ UNCHANGED <<breakpoints, created>>
         ELSE /\ created' = created + 1
              \* the return of line 1611 leaves the breakpoint; line 1615 clears it
              /\ breakpoints' = IF fails = "stepout" THEN breakpoints \cup {created + 1}
                                ELSE (breakpoints \cup {created + 1}) \ {created + 1}
              /\ stepped' = [op |-> "continueToLine", bp |-> created + 1,
                             err |-> IF fails = "none" THEN "nil" ELSE fails]
    /\ UNCHANGED <<infoVars, cmds, lastCmd, found, helped, configured, split, restarted>>

Panels == {"locals", "globals"}

Free == [who |-> "free", id |-> 0]
Ui == [who |-> "ui", id |-> 0]
LoadHolder(t) == [who |-> "load", id |-> t]
ExprHolder(k) == [who |-> "expr", id |-> k]

NoTask == [pc |-> "none"]
Idle == [pc |-> "idle", panel |-> "none", clean |-> FALSE, stack |-> <<>>]

LiveTasks(tk) == {t \in TaskIds : tk[t] # NoTask}
\* a task is outstanding from its start until it has cleared the flag
Outstanding(tk) ==
    {t \in LiveTasks(tk) : ~tk[t].cleared}

Roots(lo, gl, wa, tk, st) ==
    Range(lo) \cup Range(gl) \cup Range(wa) \cup ({printed} \ {Nil})
        \cup {tk[t].v : t \in LiveTasks(tk)} \cup {st[i].n : i \in DOMAIN st}

PanelNodes(h, lo, gl, wa) == Reach(h, Range(lo) \cup Range(gl) \cup Range(wa))

\* the program before the first scope load
Start ==
    /\ varFormat = [a \in {} |-> [signed |-> TRUE, mode |-> "dec"]]
    /\ heap = [n \in NodeIds |-> NoNode]
    /\ locals = <<>>
    /\ globals = <<>>
    /\ exprs = <<>>
    /\ watch = <<>>
    /\ selected = -1
    /\ mu = Free
    /\ running = FALSE
    /\ tasks = [t \in TaskIds |-> NoTask]
    /\ exprTasks = <<>>
    /\ render = Idle
    /\ redraw = {}
    /\ loads = 0
    /\ done = <<>>
    /\ printed = Nil
    /\ drawn = {}
    /\ dropped = {}
    /\ CmdStart

Init ==
    /\ session \in Sessions
    /\ Start

\* --------------------------------------------- loadMore*, lines 919-987
\* The part of loadMore* the caller runs: the test of additionalLoadRunning,
\* its setting and the go statement.  st holds the flag and the goroutines.
NewTask(tk) == CHOOSE t \in TaskIds : tk[t] = NoTask /\ \A u \in TaskIds : tk[u] = NoTask => t <= u

Spawn(st, fn, v) ==
    [running |-> TRUE,
     tasks |-> [st.tasks EXCEPT ![NewTask(st.tasks)] =
                   [pc |-> "call", fn |-> fn, v |-> v, err |-> <<>>,
                    signals |-> 0, cleared |-> FALSE, lines |-> 0]]]

loadMoreMap(st, v) == IF ~st.running THEN Spawn(st, "Map", v) ELSE st

\* a loadMoreArrayOrSlice without the test of line 945
loadMoreArrayOrSliceUntested(st, v) == Spawn(st, "Array", v)
loadMoreArrayOrSlice(st, v) == IF ~st.running THEN Spawn(st, "Array", v) ELSE st

\* a loadMoreStruct that starts its goroutine whatever the flag says
loadMoreStructQueued(st, v) == Spawn(st, "Struct", v)
loadMoreStruct(st, v) == IF ~st.running THEN Spawn(st, "Struct", v) ELSE st

\* ------------------------------------------------ rendering, lines 711-917
\* showVariable recurses over the tree; here the recursion is a stack of
\* frames, one step showing the node of the top frame.  A step returns the
\* heap, the flag and goroutines, the frames it pushes and the loadMore* call
\* it made.
maxAutoloadDepth == 10

NoCall == [fn |-> "none"]
Call(fn, n, how, h, st) ==
    [fn |-> fn, n |-> n, how |-> how, refused |-> st.running, before |-> h[n]]
Res(h, st, push, call) == [h |-> h, st |-> st, push |-> push, call |-> call]
Frame(op, n, depth, menu) == [op |-> op, n |-> n, depth |-> depth, menu |-> menu]

ChildFrames(cs, depth) ==
    LET shown == SelectSeq(cs, LAMBDA c : c # Nil)
    IN [i \in 1..Len(shown) |-> Frame("show", shown[i], depth, -1)]

\* lines 869-880
autoloadMore(h, c) ==
    IF h[c].OnlyAddr THEN TRUE
    ELSE IF h[c].Kind = "Struct" /\ Len(h[c].Children) = 0 THEN TRUE
    ELSE h[c].Kind = "Ptr" /\ Len(h[c].Children) = 1 /\ h[h[c].Children[1]].OnlyAddr

\* lines 854-857 and 817-820: the automatic load of a slice, array or map
autoload(h, st, depth, n) ==
    IF depth < maxAutoloadDepth /\ ~h[n].loading /\ Len(h[n].Children) > 0
         /\ autoloadMore(h, h[n].Children[1])
    THEN LET h1 == [h EXCEPT ![n].loading = TRUE]
         IN Res(h1, loadMoreStruct(st, n), <<>>, Call("Struct", n, "auto", h1, st))
    ELSE Res(h, st, <<>>, NoCall)

\* lines 853-867; the "more" button of lines 861-866 is the frame pushed last
showArrayOrSliceContents(h, st, depth, n) ==
    LET a == autoload(h, st, depth, n)
    IN Res(a.h, a.st,
           ChildFrames(h[n].Children, depth + 1) \o <<Frame("moreArr", n, depth, -1)>>,
           a.call)

\* lines 882-886
showStructContents(h, st, depth, n) ==
    Res(h, st, ChildFrames(h[n].Children, depth + 1), NoCall)

\* lines 888-917
showInterfaceContents(h, st, depth, n) ==
    IF Len(h[n].Children) <= 0 THEN Res(h, st, <<>>, NoCall)
    ELSE LET data == h[n].Children[1]
         IN IF h[data].OnlyAddr \/ (h[data].Kind = "Ptr" /\ Len(h[data].Children) <= 0)
            THEN Res(h, loadMoreStruct(st, n), <<>>, Call("Struct", n, "loading", h, st))
            ELSE LET d == IF h[data].Kind = "Ptr" THEN h[data].Children[1] ELSE data
                 IN CASE h[d].Kind = "Struct" -> showStructContents(h, st, depth, d)
                      [] h[d].Kind \in {"Array", "Slice"} ->
                           showArrayOrSliceContents(h, st, depth, d)
                      [] OTHER -> Res(h, st, <<Frame("show", d, depth + 1, -1)>>, NoCall)

\* lines 711-851; isopen is what hdr() returns
showVariable(h, st, f, isopen) ==
    LET n == f.n
        v == h[n]
        depth == f.depth
        none == Res(h, st, <<>>, NoCall)
    IN IF v.Unreadable # <<>> THEN none
       ELSE IF depth > 0 /\ v.Addr = 0 THEN none
       ELSE CASE v.Kind \in {"Slice", "Array"} ->
                   IF isopen THEN showArrayOrSliceContents(h, st, depth, n) ELSE none
              [] v.Kind = "Ptr" ->
                   IF Len(v.Children) = 0 THEN none
                   ELSE IF v.Type = <<>> \/ h[v.Children[1]].Addr = 0 THEN none
                   ELSE IF ~isopen THEN none
                   ELSE IF h[v.Children[1]].OnlyAddr
                   THEN Res(h, loadMoreStruct(st, v.Children[1]), <<>>,
                            Call("Struct", v.Children[1], "loading", h, st))
                   ELSE Res(h, st, <<Frame("show", v.Children[1], depth + 1, -1)>>, NoCall)
              [] v.Kind = "Chan" ->
                   IF Len(v.Children) = 0 \/ ~isopen THEN none
                   ELSE showStructContents(h, st, depth, n)
              [] v.Kind = "Struct" ->
                   IF ~isopen THEN none
                   ELSE IF v.Len # Len(v.Children) /\ Len(v.Children) = 0
                   THEN Res(h, loadMoreStruct(st, n), <<>>, Call("Struct", n, "loading", h, st))
                   ELSE showStructContents(h, st, depth, n)
              [] v.Kind = "Interface" ->
                   IF h[v.Children[1]].Kind = "Invalid" \/ ~isopen THEN none
                   ELSE showInterfaceContents(h, st, depth, n)
              [] v.Kind = "Map" ->
                   IF ~isopen THEN none
                   ELSE LET a == autoload(h, st, depth, n)
                        IN Res(a.h, a.st,
                               ChildFrames(v.Children, depth + 1)
                                   \o <<Frame("moreMap", n, depth, -1)>>,
                               a.call)
              [] OTHER -> none

\* The rows a visit draws, each the node it is drawn for and its text: the
\* header of a tree node is "open" or "closed", a node handed to
\* showStructContents or showArrayOrSliceContents without a row of its own is
\* "contents".
hdr(n, isopen) == {<<n, IF isopen THEN "open" ELSE "closed">>}

\* lines 888-917
interfaceRows(h, n) ==
    IF Len(h[n].Children) <= 0 THEN {}
    ELSE LET data == h[n].Children[1]
         IN IF h[data].OnlyAddr \/ (h[data].Kind = "Ptr" /\ Len(h[data].Children) <= 0)
            THEN {<<n, "Loading...">>}
            ELSE LET d == IF h[data].Kind = "Ptr" THEN h[data].Children[1] ELSE data
                 IN IF h[d].Kind \in {"Struct", "Array", "Slice"}
                    THEN {<<d, "contents">>} ELSE {}

\* lines 741-851
rows(h, f, isopen) ==
    LET n == f.n
        v == h[n]
    IN IF v.Unreadable # <<>> THEN {<<n, "unreadable">>}
       ELSE IF f.depth > 0 /\ v.Addr = 0 THEN {<<n, "nil">>}
       ELSE CASE v.Kind \in {"Slice", "Array", "Map"} -> hdr(n, isopen)
              [] v.Kind = "Ptr" ->
                   IF Len(v.Children) = 0 THEN {<<n, "?">>}
                   ELSE IF v.Type = <<>> \/ h[v.Children[1]].Addr = 0 THEN {<<n, "nil">>}
                   ELSE hdr(n, isopen)
                        \cup (IF isopen /\ h[v.Children[1]].OnlyAddr
                              THEN {<<v.Children[1], "Loading...">>} ELSE {})
              [] v.Kind = "Chan" ->
                   IF Len(v.Children) = 0 THEN {<<n, "nil">>} ELSE hdr(n, isopen)
              [] v.Kind = "Struct" ->
                   hdr(n, isopen)
                   \cup (IF isopen /\ v.Len # Len(v.Children) /\ Len(v.Children) = 0
                         THEN {<<n, "Loading...">>} ELSE {})
              [] v.Kind = "Interface" ->
                   IF h[v.Children[1]].Kind = "Invalid" THEN {<<n, "nil">>}
                   ELSE hdr(n, isopen) \cup (IF isopen THEN interfaceRows(h, n) ELSE {})
              [] OTHER -> {<<n, "value">>}

\* a "more" button that is offered whatever the number of children
moreArrayOrSliceAlways(h, st, n, click) ==
    IF h[n].Addr # 0 /\ click
    THEN Res(h, loadMoreArrayOrSlice(st, n), <<>>, Call("Array", n, "more", h, st))
    ELSE Res(h, st, <<>>, NoCall)

\* lines 861-866: the "more" button of a slice or array; click is ButtonText's answer
moreArrayOrSlice(h, st, n, click) ==
    IF Len(h[n].Children) # h[n].Len /\ h[n].Addr # 0 /\ click
    THEN Res(h, loadMoreArrayOrSlice(st, n), <<>>, Call("Array", n, "more", h, st))
    ELSE Res(h, st, <<>>, NoCall)

\* lines 826-831: the "more" button of a map
moreMap(h, st, n, click) ==
    IF Len(h[n].Children) \div 2 # h[n].Len /\ h[n].Addr # 0 /\ click
    THEN Res(h, loadMoreMap(st, n), <<>>, Call("Map", n, "more", h, st))
    ELSE Res(h, st, <<>>, NoCall)

\* the node whose load the frame's rendering asks for when one is needed
Site(h, f) ==
    IF h[f.n].Kind = "Ptr" /\ Len(h[f.n].Children) > 0 THEN h[f.n].Children[1] ELSE f.n

Live(h) == {n \in NodeIds : h[n] # NoNode}

\* updateLocals / updateGlobals up to the traversal: lines 262-280, 355-373.
\* The two tabs are open and the filter is empty.
RootFrames(p) ==
    IF p = "globals" THEN [i \in 1..Len(globals) |-> Frame("show", globals[i], 0, -1)]
    ELSE LET shown == SelectSeq([i \in 1..Len(watch) |-> i], LAMBDA i : watch[i] # Nil)
         IN [k \in 1..Len(shown) |-> Frame("show", watch[shown[k]], 0, shown[k] - 1)]
                \o [i \in 1..Len(locals) |-> Frame("show", locals[i], 0, -1)]

RenderLock(p) ==
    /\ p \in session.panels
    /\ render.pc = "idle"
    /\ mu = Free
    /\ mu' = IF RootFrames(p) = <<>> THEN Free ELSE Ui
    /\ render' = IF RootFrames(p) = <<>> THEN Idle
                 ELSE [pc |-> "run", panel |-> p,
                       clean |-> (~running /\ Outstanding(tasks) = {}),
                       stack |-> RootFrames(p)]
    /\ redraw' = redraw \ {p}
    /\ drawn' = {}
    /\ UNCHANGED <<cmdVars, session, selected, printed, done, varFormat, heap, locals, globals, exprs, watch, running, tasks, exprTasks,
                   loads, dropped>>

\* what the user can answer at the node of the top frame: hdr() opens or
\* closes a node, ButtonText is a click on a "more" button, and the contextual
\* menu offers "Add as expression" for a node with an expression that is not
\* itself a watch expression
OpenAnswers == IF Head(render.stack).op = "show" THEN BOOLEAN ELSE {FALSE}
ClickAnswers == IF Head(render.stack).op = "show" THEN {FALSE} ELSE BOOLEAN
AddAnswers ==
    IF /\ Head(render.stack).op = "show"
       /\ ~(Head(render.stack).menu >= 0 /\ Head(render.stack).menu < Len(exprs))
       /\ heap[Head(render.stack).n].Expression # <<>>
       /\ Len(exprs) < MaxExprs
       /\ session.watch
    THEN BOOLEAN ELSE {FALSE}

\* the number modes the user can pick at the node of the top frame: the
\* options of showExprMenu (lines 529-566) for the integer kinds
ModeAnswers ==
    IF /\ Head(render.stack).op = "show"
       /\ session.menu
       /\ heap[Head(render.stack).n].Kind \in IntKinds \cup UintKinds
    THEN NumberModes ELSE {"same"}

\* lines 542-545 and 561-564: the formatter of the new mode is installed for
\* the address of node n and applied to it
installed(vf, h, n, mode) ==
    IF mode = "same" \/ mode = h[n].IntMode THEN vf
    ELSE [a \in DOMAIN vf \cup {h[n].Addr} |->
             IF a = h[n].Addr THEN [signed |-> h[n].Kind \in IntKinds, mode |-> mode]
             ELSE vf[a]]
setMode(h, n, mode) ==
    IF mode = "same" \/ mode = h[n].IntMode THEN h
    ELSE [h EXCEPT ![n].IntMode = mode,
                   ![n].Value = formatNumber([signed |-> h[n].Kind \in IntKinds, mode |-> mode],
                                             h[n].RawValue)]

\* the rendering of the node of frame f
Visit(f, isopen, click) ==
    CASE f.op = "show" ->
           showVariable(heap, [running |-> running, tasks |-> tasks], f, isopen)
      [] f.op = "moreArr" ->
           moreArrayOrSlice(heap, [running |-> running, tasks |-> tasks], f.n, click)
      [] f.op = "moreMap" ->
           moreMap(heap, [running |-> running, tasks |-> tasks], f.n, click)

\* the nodes with a refused request of a traversal (not of a click on a
\* "more" button), after the call a visit made; a request for the node that is
\* being loaded is not counted
Refused(call) ==
    IF call.fn = "none" THEN dropped
    ELSE IF ~call.refused THEN dropped \ {call.n}
    ELSE IF call.how = "more" \/ \E t \in LiveTasks(tasks) : tasks[t].v = call.n THEN dropped
    ELSE dropped \cup {call.n}

\* the go statement of lines 432-436, 445-449 and 503-507 with the argument i
goLoadOneExpr(i) == [i |-> i, at |-> i, pc |-> "lock"]

\* one node of the traversal: showVariable or a "more" button, with the
\* contextual menu's "Add as expression" (showExprMenu, lines 512-516, and
\* addExpression, lines 441-450); after the last node the deferred
\* additionalLoadMu.Unlock() of lines 269 and 362 runs
RenderVisit ==
    /\ render.pc = "run"
    /\ render.stack # <<>>
    /\ running \/ LiveTasks(tasks) # TaskIds
    /\ \E isopen \in OpenAnswers, click \in ClickAnswers, add \in AddAnswers,
            mode \in ModeAnswers :
         \E r \in {Visit(Head(render.stack), isopen, click)} :
         \E stack \in {r.push \o Tail(render.stack)} :
         \E h1 \in {setMode(r.h, Head(render.stack).n, mode)} :
         \E h2 \in {Collect(h1, Roots(locals, globals, watch, r.st.tasks, stack))} :
            /\ heap' = h2
            /\ varFormat' = installed(varFormat, heap, Head(render.stack).n, mode)
            /\ running' = r.st.running
            /\ tasks' = r.st.tasks
            /\ render' = IF stack = <<>> THEN Idle ELSE [render EXCEPT !.stack = stack]
            /\ mu' = IF stack = <<>> THEN Free ELSE mu
            /\ exprs' = IF add THEN Append(exprs, heap[Head(render.stack).n].Expression)
                        ELSE exprs
            /\ watch' = IF add THEN Append(watch, Nil) ELSE watch
            /\ exprTasks' = IF add THEN Append(exprTasks, goLoadOneExpr(Len(watch)))
                            ELSE exprTasks
            /\ dropped' = Refused(r.call) \cap Live(h2)
            /\ drawn' = IF Head(render.stack).op = "show"
                         THEN rows(heap, Head(render.stack), isopen) ELSE {}
    /\ UNCHANGED <<cmdVars, session, selected, printed, done, locals, globals, redraw, loads>>

\* ------------------------------- the goroutines of loadMore*, lines 925-985
\* the evaluation a goroutine asks for: lines 926, 948 and 970
loadExpr(fn, v) ==
    CASE fn = "Map" -> tailExpr(v.Type, v.Addr, Len(v.Children) \div 2)
      [] fn = "Array" -> tailExpr(v.Type, v.Addr, Len(v.Children))
      [] fn = "Struct" -> derefExpr(v.Type, v.Addr)

\* an append that looks the node up again by its address and kind and so
\* reaches every copy of it
appendChildrenByAddr(h, v, w) ==
    [n \in NodeIds |->
        IF w.h[n] # NoNode /\ h[n] # NoNode /\ h[n].Addr = h[v].Addr /\ h[n].Kind = h[v].Kind
        THEN [w.h[n] EXCEPT !.Children = h[n].Children \o w.ids]
        ELSE w.h[n]]

\* v.Children = append(v.Children, w...), lines 934 and 956
appendChildren(h, v, w) == [w.h EXCEPT ![v].Children = h[v].Children \o w.ids]

\* line 934: what the goroutine of loadMoreMap does with the answer lv
loadMoreMapMerge(h, v, lv) ==
    appendChildren(h, v, wrapApiVariables(h, lv.Children, "Map", Len(h[v].Children),
                                          h[v].Expression, TRUE))
\* line 932 without the division
loadMoreMapFailWhole(h, v, err) == [h EXCEPT ![v].Len = Len(h[v].Children)]
\* line 932
loadMoreMapFail(h, v, err) == [h EXCEPT ![v].Len = Len(h[v].Children) \div 2]

\* line 956
loadMoreArrayOrSliceMerge(h, v, lv) ==
    appendChildren(h, v, wrapApiVariables(h, lv.Children, h[v].Kind, Len(h[v].Children),
                                          h[v].Expression, TRUE))
\* line 954
loadMoreArrayOrSliceFail(h, v, err) == [h EXCEPT ![v].Len = Len(h[v].Children)]

\* line 977 alone: the node is overwritten and keeps the names of the answer
overwriteWhole(h, v, w) == [w.h EXCEPT ![v] = w.h[w.id], ![w.id] = NoNode]

\* lines 977-979: the node is overwritten by the wrapped answer w, which is
\* then garbage, and gets its Varname and DisplayName back
overwrite(h, v, w) ==
    [w.h EXCEPT ![v] = [w.h[w.id] EXCEPT !.Varname = h[v].Varname,
                                         !.DisplayName = h[v].DisplayName],
                ![w.id] = NoNode]

\* lines 974-979
loadMoreStructMerge(h, v, lv) ==
    overwrite(h, v, wrapApiVariable(h, [lv EXCEPT !.Name = h[v].Name], h[v].Name,
                                    h[v].Expression, TRUE))
\* a failure that also forgets the children
loadMoreStructFailEmpty(h, v, err) == [h EXCEPT ![v].Unreadable = err, ![v].Children = <<>>]
\* line 972
loadMoreStructFail(h, v, err) == [h EXCEPT ![v].Unreadable = err]

merge(h, fn, v, lv) ==
    CASE fn = "Map" -> loadMoreMapMerge(h, v, lv)
      [] fn = "Array" -> loadMoreArrayOrSliceMerge(h, v, lv)
      [] fn = "Struct" -> loadMoreStructMerge(h, v, lv)

fail(h, fn, v, err) ==
    CASE fn = "Map" -> loadMoreMapFail(h, v, err)
      [] fn = "Array" -> loadMoreArrayOrSliceFail(h, v, err)
      [] fn = "Struct" -> loadMoreStructFail(h, v, err)

\* nodes the merge of answer lv allocates
mergeNeeds(fn, lv) ==
    IF fn = "Struct" THEN RawSize(lv) ELSE RawSizeSeq(lv.Children)

\* the order of the statements that follow the merge: wnd.Changed(), Lock,
\* clear and Unlock in loadMoreMap and loadMoreStruct (lines 936-939, 981-984);
\* Lock, clear and Unlock, wnd.Changed() in loadMoreArrayOrSlice (lines 958-961)
\* the same statements without additionalLoadMu.Lock()
nextPcNoLock(fn, pc) ==
    IF fn = "Array"
    THEN CASE pc = "call" -> "locked"
           [] pc = "locked" -> "changed"
           [] pc = "changed" -> "exit"
    ELSE CASE pc = "call" -> "changed"
           [] pc = "changed" -> "locked"
           [] pc = "locked" -> "exit"

\* the same statements with loadMoreArrayOrSlice returning after the Unlock
nextPcNoChanged(fn, pc) ==
    IF fn = "Array"
    THEN CASE pc = "call" -> "lock"
           [] pc = "lock" -> "locked"
           [] pc = "locked" -> "exit"
    ELSE CASE pc = "call" -> "changed"
           [] pc = "changed" -> "lock"
           [] pc = "lock" -> "locked"
           [] pc = "locked" -> "exit"

nextPc(fn, pc) ==
    IF fn = "Array"
    THEN CASE pc = "call" -> "lock"
           [] pc = "lock" -> "locked"
           [] pc = "locked" -> "changed"
           [] pc = "changed" -> "exit"
    ELSE CASE pc = "call" -> "changed"
           [] pc = "changed" -> "lock"
           [] pc = "lock" -> "locked"
           [] pc = "locked" -> "exit"

\* the goroutine moves on to pc, or returns
Goto(tk, t, pc) ==
    IF pc = "exit" THEN [tk EXCEPT ![t] = NoTask] ELSE [tk EXCEPT ![t].pc = pc]

\* client.EvalVariable answers with a value, which lines 932-934, 954-956 or
\* 974-979 merge into the node
TaskReturnOk(t) ==
    /\ tasks[t].pc = "call"
    /\ \E lv \in EvalVariable(loadExpr(tasks[t].fn, heap[tasks[t].v])) :
         /\ Cardinality(FreeIds(heap)) >= mergeNeeds(tasks[t].fn, lv)
         /\ heap' = Collect(merge(heap, tasks[t].fn, tasks[t].v, lv),
                            Roots(locals, globals, watch, tasks, render.stack))
    /\ tasks' = Goto(tasks, t, nextPc(tasks[t].fn, "call"))
    /\ dropped' = dropped \cap Live(heap')
    /\ UNCHANGED <<cmdVars, session, selected, printed, done, drawn, varFormat, locals, globals, exprs, watch, mu, running, exprTasks, render, redraw, loads>>

\* the lines the error branch writes to the scrollback: "Error loading array
\* contents ..." in loadMoreMap (lines 929-930) and loadMoreArrayOrSlice
\* (lines 951-952), nothing in loadMoreStruct (line 972)
linesOnError(fn) == IF fn \in {"Map", "Array"} THEN 1 ELSE 0

\* client.EvalVariable answers with an error: lines 929-932, 951-954 or 972
TaskReturnErr(t) ==
    /\ tasks[t].pc = "call"
    /\ heap' = fail(heap, tasks[t].fn, tasks[t].v, ErrText)
    /\ tasks' = Goto([tasks EXCEPT ![t].err = ErrText,
                                   ![t].lines = @ + linesOnError(tasks[t].fn)],
                     t, nextPc(tasks[t].fn, "call"))
    /\ UNCHANGED <<cmdVars, session, selected, printed, done, drawn, varFormat, locals, globals, exprs, watch, mu, running, exprTasks, render,
                   redraw, loads, dropped>>

\* wnd.Changed()
TaskChanged(t) ==
    /\ tasks[t].pc = "changed"
    /\ redraw' = session.panels
    /\ tasks' = Goto([tasks EXCEPT ![t].signals = tasks[t].signals + 1], t,
                     nextPc(tasks[t].fn, "changed"))
    /\ heap' = Collect(heap, Roots(locals, globals, watch, tasks', render.stack))
    /\ dropped' = dropped \cap Live(heap')
    /\ UNCHANGED <<cmdVars, session, selected, printed, done, drawn, varFormat, locals, globals, exprs, watch, mu, running, exprTasks, render, loads>>

\* additionalLoadMu.Lock()
TaskLock(t) ==
    /\ tasks[t].pc = "lock"
    /\ mu = Free
    /\ mu' = LoadHolder(t)
    /\ tasks' = Goto(tasks, t, nextPc(tasks[t].fn, "lock"))
    /\ UNCHANGED <<cmdVars, session, selected, printed, done, drawn, varFormat, heap, locals, globals, exprs, watch, running, exprTasks, render,
                   redraw, loads, dropped>>

\* additionalLoadRunning = false; additionalLoadMu.Unlock()
TaskClearUnlock(t) ==
    /\ tasks[t].pc = "locked"
    /\ running' = FALSE
    /\ mu' = Free
    /\ tasks' = Goto([tasks EXCEPT ![t].cleared = TRUE], t, nextPc(tasks[t].fn, "locked"))
    /\ heap' = Collect(heap, Roots(locals, globals, watch, tasks', render.stack))
    /\ dropped' = dropped \cap Live(heap')
    /\ UNCHANGED <<cmdVars, session, selected, printed, done, drawn, varFormat, locals, globals, exprs, watch, exprTasks, render, redraw, loads>>

\* ------------------------------------------- scope loads, lines 255-346
\* the characters of the model's strings in byte order
Charset == <<"\"", "&", "(", ")", "*", ".">> \o Digit \o <<":", "T", "[", "]">>
               \o <<"a", "b", "c", "d", "e", "f", "g", "i", "k", "l", "m", "n", "p",
                    "q", "r", "s", "t", "u", "v", "x", "y">>
Ord(c) == CHOOSE i \in 1..Len(Charset) : Charset[i] = c

RECURSIVE StrLess(_, _)
\* Go's < on strings
StrLess(a, b) ==
    IF b = <<>> THEN FALSE
    ELSE IF a = <<>> THEN TRUE
    ELSE IF Head(a) # Head(b) THEN Ord(Head(a)) < Ord(Head(b))
    ELSE StrLess(Tail(a), Tail(b))

\* the one order a stable sort yields: before(i, j) says element i sorts before j
SortByDeclLine(h, ids) ==
    LET n == Len(ids)
        rank(i) == 1 + Cardinality({j \in 1..n :
                        \/ h[ids[j]].DeclLine < h[ids[i]].DeclLine
                        \/ h[ids[j]].DeclLine = h[ids[i]].DeclLine /\ j < i})
    IN [k \in 1..n |-> ids[CHOOSE i \in 1..n : rank(i) = k]]

\* sort.Sort(variablesByName(...)), lines 258 and 289-293
SortByName(h, ids) ==
    LET n == Len(ids)
        rank(i) == 1 + Cardinality({j \in 1..n :
                        \/ StrLess(h[ids[j]].Name, h[ids[i]].Name)
                        \/ h[ids[j]].Name = h[ids[i]].Name /\ j < i})
    IN [k \in 1..n |-> ids[CHOOSE i \in 1..n : rank(i) = k]]

\* lines 299-306: a local the compiler moved to the heap is shown as its target
unwrapEscaped(v) ==
    IF v.Kind = "Ptr" /\ Len(v.Name) > 1 /\ v.Name[1] = "&" /\ Len(v.Children) > 0
    THEN [v.Children[1] EXCEPT !.Name = SubSeq(v.Name, 2, Len(v.Name))]
    ELSE v

\* a numbering by the position in the list, whatever the names
numberVarnamesByPosition(h, ids) ==
    [n \in NodeIds |->
        IF \E i \in 1..Len(ids) : ids[i] = n
        THEN LET i == CHOOSE i \in 1..Len(ids) : ids[i] = n
             IN [h[n] EXCEPT !.Varname = h[n].Varname \o <<" ">> \o Itoa(i - 1)]
        ELSE h[n]]

\* lines 311-319: Varname gets the number of earlier locals of the same name
numberVarnames(h, ids) ==
    [n \in NodeIds |->
        IF \E i \in 1..Len(ids) : ids[i] = n
        THEN LET i == CHOOSE i \in 1..Len(ids) : ids[i] = n
                 d == Cardinality({j \in 1..(i - 1) : h[ids[j]].Varname = h[n].Varname})
             IN [h[n] EXCEPT !.Varname = h[n].Varname \o <<" ">> \o Itoa(d)]
        ELSE h[n]]

\* loadOneExpr, lines 409-420: val is what evalScopedExpr returned for slot i
loadOneExpr(h, i, val) ==
    LET v == [val EXCEPT !.Name = exprs[i + 1]]
    IN wrapApiVariable(h, v, v.Name, v.Name, TRUE)

RECURSIVE loadExprsFrom(_, _, _)
\* the expression a, then the rest of the loop of lines 322-327
exprThenRest(a, i, vals) == appendIds(<<a.id>>, loadExprsFrom(a.h, i + 1, vals))

\* lines 322-327: every watch expression is evaluated again
loadExprsFrom(h, i, vals) ==
    IF i >= Len(exprs) THEN [h |-> h, ids |-> <<>>]
    ELSE exprThenRest(loadOneExpr(h, i, vals[i + 1]), i, vals)

\* what a listing of the client returns with the error err: one of the scopes,
\* no variables when it failed
listing(scopes, err) == IF err # <<>> THEN {<<>>} ELSE scopes

\* a loop that looks at the first error only
firstErrorOfOne(errs) == errs[1]

\* lines 339-345: the first error of errs, <<>> (nil) when there is none
firstError(errs) ==
    IF \E i \in 1..Len(errs) : errs[i] # <<>>
    THEN errs[CHOOSE i \in 1..Len(errs) :
                 errs[i] # <<>> /\ \A j \in 1..(i - 1) : errs[j] = <<>>]
    ELSE <<>>

\* loadLocals.  It runs while updateLocals does not show the panel.
LoadLocals ==
    /\ loads < MaxLoads
    /\ loads' = loads + 1
    /\ ~(render.pc = "run" /\ render.panel = "locals")
    /\ \E errloc \in session.errs, errarg \in session.errs :
       \E args \in listing(ArgScopes, errloc), ls \in listing(session.locals, errarg),
          vals \in evalAll(exprs) :
         \* each intermediate result is bound once: the old trees are dropped
         \* (h0), the arguments and the locals are wrapped (a, l), sorted by
         \* declaration line, numbered, and the expressions are evaluated (e)
         \E h0 \in {Collect(heap, Roots(<<>>, globals, <<>>, tasks, render.stack))} :
            /\ Cardinality(FreeIds(h0)) >=
                  RawSizeSeq(args) + RawSizeSeq(ls) + RawSizeSeq(vals)
            /\ \E a \in {wrapApiVariables(h0, args, "Invalid", 0, <<>>, TRUE)} :
               \E l \in {wrapApiVariables(a.h, [i \in 1..Len(ls) |-> unwrapEscaped(ls[i])],
                                          "Invalid", 0, <<>>, TRUE)} :
               \E sorted \in {SortByDeclLine(l.h, a.ids \o l.ids)} :
               \E e \in {loadExprsFrom(numberVarnames(l.h, sorted), 0, vals)} :
                  /\ heap' = e.h
                  /\ locals' = sorted
                  /\ watch' = e.ids
                  /\ dropped' = dropped \cap Live(h0)
                  /\ done' = Append(done, [panel |-> "locals",
                                            err |-> firstError(<<errarg, errloc>>),
                                            returned |-> <<errloc, errarg>>])
    /\ UNCHANGED <<cmdVars, session, selected, printed, drawn, varFormat, globals, exprs, mu, running, tasks, exprTasks, render, redraw>>

\* loadGlobals.  It runs while updateGlobals does not show the panel.
LoadGlobals ==
    /\ loads < MaxLoads
    /\ loads' = loads + 1
    /\ "globals" \in session.panels
    /\ ~(render.pc = "run" /\ render.panel = "globals")
    /\ \E err \in session.errs :
       \E gs \in listing(session.globals, err) :
         \E h0 \in {Collect(heap, Roots(locals, <<>>, watch, tasks, render.stack))} :
            /\ Cardinality(FreeIds(h0)) >= RawSizeSeq(gs)
            /\ \E g \in {wrapApiVariables(h0, gs, "Invalid", 0, <<>>, TRUE)} :
                  /\ heap' = g.h
                  /\ globals' = SortByName(g.h, g.ids)
                  /\ dropped' = dropped \cap Live(h0)
                  /\ done' = Append(done, [panel |-> "globals", err |-> err, returned |-> <<err>>])
    /\ UNCHANGED <<cmdVars, session, selected, printed, drawn, varFormat, locals, exprs, watch, mu, running, tasks, exprTasks, render, redraw>>

\* ------------------- the goroutine of addExpression, lines 445-449
ExprLock(k) ==
    /\ k \in DOMAIN exprTasks
    /\ exprTasks[k].pc = "lock"
    /\ mu = Free
    /\ mu' = ExprHolder(k)
    /\ exprTasks' = [exprTasks EXCEPT ![k].pc = "load"]
    /\ UNCHANGED <<cmdVars, session, selected, printed, done, drawn, varFormat, heap, locals, globals, exprs, watch, running, tasks, render,
                   redraw, loads, dropped>>

\* loadOneExpr(i) and the deferred Unlock; localsPanel.expressions[i] of line
\* 411 is an index out of range when the list has no slot i, and the panic
\* ends the program after the deferred Unlock
ExprLoad(k) ==
    /\ k \in DOMAIN exprTasks
    /\ exprTasks[k].pc = "load"
    /\ IF exprTasks[k].i >= Len(exprs)
       THEN /\ exprTasks' = [exprTasks EXCEPT ![k].pc = "panic"]
            /\ UNCHANGED <<heap, watch, dropped>>
       ELSE /\ \E val \in evalScopedExpr(exprs[exprTasks[k].i + 1]) :
                 \E i \in {exprTasks[k].i} :
                 \E h0 \in {Collect(heap, Roots(locals, globals, [watch EXCEPT ![i + 1] = Nil],
                                               tasks, render.stack))} :
                    /\ Cardinality(FreeIds(h0)) >= RawSize(val)
                    /\ \E w \in {loadOneExpr(h0, i, val)} :
                          /\ heap' = w.h
                          /\ watch' = [watch EXCEPT ![i + 1] = w.id]
                          /\ dropped' = dropped \cap Live(h0)
            /\ exprTasks' = [j \in 1..(Len(exprTasks) - 1) |->
                                IF j < k THEN exprTasks[j] ELSE exprTasks[j + 1]]
    /\ mu' = Free
    /\ UNCHANGED <<cmdVars, session, selected, printed, done, drawn, varFormat, locals, globals, exprs, running, tasks, render, redraw, loads>>

\* ------------------------- the list of watch expressions, lines 376-517
\* The handlers below run inside updateLocals, which holds additionalLoadMu
\* from line 361 to its return; a pass that calls one of them is one step.
MaxWatch == 2        \* watch expressions in the list
MaxWatchTasks == 2   \* goroutines of loadOneExpr alive at once
WatchNames == {<<"a">>, <<"b">>}

\* a panic has ended the program
Crashed == \E k \in DOMAIN exprTasks : exprTasks[k].pc = "panic"

\* the slots drawn by showVariable with their contextual menu, lines 378-386
ShownExprs == {i \in 0..(Len(exprs) - 1) : i # selected /\ watch[i + 1] # Nil}

\* exprIsScoped, and the two rewritings of "Pin to frame", lines 495-501
exprIsScoped(e) == e # <<>> /\ Head(e) = "@"
pinToFrame(e) == IF exprIsScoped(e) THEN Tail(e) ELSE <<"@">> \o e

\* the places of the expressions the goroutines were started for, after the
\* slot i has been removed
afterRemove(ts, i) ==
    [k \in DOMAIN ts |->
        [ts[k] EXCEPT !.at = IF ts[k].at = i THEN -1
                             ELSE IF ts[k].at > i THEN ts[k].at - 1 ELSE ts[k].at]]

\* addExpression, lines 441-450
AddExpression ==
    /\ mu = Free
    /\ ~Crashed
    /\ Len(exprs) < MaxWatch
    /\ Len(exprTasks) < MaxWatchTasks
    /\ \E newexpr \in WatchNames : exprs' = Append(exprs, newexpr)
    /\ watch' = Append(watch, Nil)
    /\ exprTasks' = Append(exprTasks, goLoadOneExpr(Len(watch)))
    /\ UNCHANGED <<cmdVars, session, selected, printed, done, drawn, varFormat, heap, locals, globals, mu, running, tasks,
                   render, redraw, loads, dropped>>

\* "Edit expression", lines 473-482
EditExpression(exprMenuIdx) ==
    /\ mu = Free
    /\ ~Crashed
    /\ exprMenuIdx \in ShownExprs
    /\ selected' = exprMenuIdx
    /\ UNCHANGED <<cmdVars, session, printed, done, drawn, varFormat, heap, locals, globals, exprs, watch, mu, running,
                   tasks, exprTasks, render, redraw, loads, dropped>>

\* exprsEditor when the edit is committed, lines 422-439; the loop of lines
\* 376-378 calls it for the slot i == localsPanel.selected
CommitExpression(buffer) ==
    /\ mu = Free
    /\ ~Crashed
    /\ selected >= 0
    /\ selected < Len(exprs)
    /\ Len(exprTasks) < MaxWatchTasks
    /\ exprs' = [exprs EXCEPT ![selected + 1] = buffer]
    /\ exprTasks' = Append(exprTasks, goLoadOneExpr(selected))
    /\ selected' = -1
    /\ UNCHANGED <<cmdVars, session, printed, done, drawn, varFormat, heap, locals, globals, watch, mu, running, tasks,
                   render, redraw, loads, dropped>>

\* "Remove expression", lines 483-490: the copies of lines 485-486 and the
\* two truncations
RemoveExpression(exprMenuIdx) ==
    /\ mu = Free
    /\ ~Crashed
    /\ exprMenuIdx \in ShownExprs
    /\ exprs' = RemoveAt(exprs, exprMenuIdx + 1)
    /\ watch' = RemoveAt(watch, exprMenuIdx + 1)
    /\ exprTasks' = afterRemove(exprTasks, exprMenuIdx)
    /\ heap' = Collect(heap, Roots(locals, globals, watch', tasks, render.stack))
    /\ UNCHANGED <<cmdVars, session, selected, printed, done, drawn, varFormat, locals, globals, mu, running, tasks,
                   render, redraw, loads, dropped>>

\* "Pin to frame", lines 494-508
PinExpression(exprMenuIdx) ==
    /\ mu = Free
    /\ ~Crashed
    /\ exprMenuIdx \in ShownExprs
    /\ Len(exprTasks) < MaxWatchTasks
    /\ exprs' = [exprs EXCEPT ![exprMenuIdx + 1] = pinToFrame(exprs[exprMenuIdx + 1])]
    /\ exprTasks' = Append(exprTasks, goLoadOneExpr(exprMenuIdx))
    /\ UNCHANGED <<cmdVars, session, selected, printed, done, drawn, varFormat, heap, locals, globals, watch, mu, running,
                   tasks, render, redraw, loads, dropped>>

\* displayVar, src/commands.go lines 858-861: the command "display" adds the
\* expression typed
DisplayVar ==
    /\ Len(exprs) < MaxExprs
    /\ \E args \in session.display : exprs' = Append(exprs, args)
    /\ watch' = Append(watch, Nil)
    /\ exprTasks' = Append(exprTasks, goLoadOneExpr(Len(watch)))
    /\ UNCHANGED <<cmdVars, session, selected, printed, done, drawn, varFormat, heap, locals, globals, mu, running, tasks,
                   render, redraw, loads, dropped>>

\* printVar, src/commands.go lines 837-856: the value of the expression is
\* wrapped by wrapApiVariableSimple (line 61: under its own name, without
\* custom formatters) and printed.  The values printed take at most 20 lines,
\* so that addExpression is not called.
PrintVar ==
    /\ \E val \in session.print :
         \E h0 \in {Collect(heap, Roots(locals, globals, watch, tasks, render.stack)
                                    \ {printed})} :
            /\ Cardinality(FreeIds(h0)) >= RawSize(val)
            /\ \E w \in {wrapApiVariable(h0, val, val.Name, val.Name, FALSE)} :
                  /\ heap' = w.h
                  /\ printed' = w.id
    /\ UNCHANGED <<cmdVars, session, selected, done, drawn, varFormat, locals, globals, exprs, watch, mu, running, tasks,
                   exprTasks, render, redraw, loads, dropped>>

\* ------------------------------------------------------------ specification
Next ==
    \/ LoadLocals
    \/ LoadGlobals
    \/ \E p \in Panels : RenderLock(p)
    \/ RenderVisit
    \/ \E t \in TaskIds : TaskReturnOk(t)
    \/ \E t \in TaskIds : TaskReturnErr(t)
    \/ \E t \in TaskIds : TaskChanged(t)
    \/ \E t \in TaskIds : TaskLock(t)
    \/ \E t \in TaskIds : TaskClearUnlock(t)
    \/ \E k \in 1..MaxExprs : ExprLock(k)
    \/ \E k \in 1..MaxExprs : ExprLoad(k)
    \/ DisplayVar

Spec == Init /\ [][Next]_vars

\* The goroutines are scheduled fairly, client.EvalVariable returns, a
\* goroutine waiting in additionalLoadMu.Lock() gets the mutex when it is
\* free often enough, and a traversal that has the mutex goes on to its end.
Fairness ==
    /\ \A t \in TaskIds : WF_vars(TaskReturnErr(t) \/ TaskReturnOk(t))
    /\ \A t \in TaskIds : WF_vars(TaskChanged(t))
    /\ \A t \in TaskIds : SF_vars(TaskLock(t))
    /\ \A t \in TaskIds : WF_vars(TaskClearUnlock(t))
    /\ WF_vars(RenderVisit)
    /\ \A k \in 1..MaxExprs : WF_vars(ExprLoad(k))

FairSpec == Spec /\ Fairness

\* Wrapping alone: the scope load of a session with one map, nothing shown.
WrapInit ==
    /\ session \in WrapSessions
    /\ Start
WrapNext == LoadLocals
WrapSpec == WrapInit /\ [][WrapNext]_vars

\* Formatting alone: a value is loaded as the one local and printed.
FormatInit ==
    /\ session \in FormatSessions
    /\ Start
FormatNext == LoadLocals \/ PrintVar
FormatSpec == FormatInit /\ [][FormatNext]_vars

\* The command line alone: restart and its arguments.
CmdSession == Session({}, {}, {}, FALSE)
SplitInit == session = CmdSession /\ Start
SplitNext == Restart
SplitSpec == SplitInit /\ [][SplitNext]_vars

\* The list of watch expressions alone: the menu's handlers and the goroutines
\* of loadOneExpr, nothing else drawn.
ExprInit == session = CmdSession /\ Start
ExprNext ==
    \/ AddExpression
    \/ \E i \in 0..(MaxWatch - 1) : EditExpression(i)
    \/ \E buffer \in WatchNames : CommitExpression(buffer)
    \/ \E i \in 0..(MaxWatch - 1) : RemoveExpression(i)
    \/ \E i \in 0..(MaxWatch - 1) : PinExpression(i)
    \/ \E k \in 1..MaxWatchTasks : ~Crashed /\ ExprLock(k)
    \/ \E k \in 1..MaxWatchTasks : ~Crashed /\ ExprLoad(k)
ExprSpec == ExprInit /\ [][ExprNext]_vars

\* The command line alone: the lookup of commands, their aliases and the help.
CmdInit == session = CmdSession /\ Start
CmdNext == DoFind \/ ConfigureSetAlias \/ Help
CmdSpec == CmdInit /\ [][CmdNext]_vars

\* The command line alone: the operations that set a temporary breakpoint.
StepInit == session = CmdSession /\ Start
StepNext == StepInto \/ ContinueToLine
StepSpec == StepInit /\ [][StepNext]_vars

\* ------------------------------------------------------------------ claims
\* a step of the traversal (RenderVisit is the one action that changes render
\* while the traversal runs)
IsRenderVisit == render.pc = "run" /\ render' # render
\* goroutine t gets the answer of client.EvalVariable and merges it or fails
IsReturn(t) == tasks[t].pc = "call" /\ tasks'[t] # tasks[t]
\* goroutine t returns
IsExit(t) == tasks[t] # NoTask /\ tasks'[t] = NoTask

\* C1: at most one background load is outstanding (started and not yet past
\* the clearing of additionalLoadRunning), whatever the nodes and panels; so
\* at most one goroutine is inside client.EvalVariable, and the flag is set
\* exactly while a load is outstanding.
C1_OneOutstanding ==
    /\ Cardinality(Outstanding(tasks)) <= 1
    /\ Cardinality({t \in TaskIds : tasks[t].pc = "call"}) <= 1
    /\ running <=> Outstanding(tasks) # {}

\* a load is inside client.EvalVariable while the goroutine of an earlier
\* load, which has cleared the flag, has not returned yet
C1_Witness ==
    \E t, u \in TaskIds :
        /\ t # u
        /\ tasks[t].pc = "call"
        /\ tasks[u] # NoTask
        /\ tasks[u].cleared

\* C2: a step of the traversal taken while additionalLoadRunning is set starts
\* no goroutine (so makes no remote call), leaves the flag set, and changes no
\* field of a node other than the loading mark the caller sets before it asks
\* (lines 818 and 855) and the number mode and shown value the user's menu
\* choice sets in the same visit; however many requests are made while one
\* load is in flight, the goroutines stay the ones there were.
C2_Dropped ==
    [][(IsRenderVisit /\ running) =>
          /\ tasks' = tasks
          /\ running'
          /\ \A n \in NodeIds :
                (heap[n] # NoNode /\ heap'[n] # NoNode) =>
                    \E mode \in ModeAnswers :
                       [heap'[n] EXCEPT !.loading = FALSE]
                          = [setMode(heap, Head(render.stack).n, mode)[n]
                                EXCEPT !.loading = FALSE]]_vars

\* a request has been refused and the load that made it refused is still in flight
C2_Witness ==
    /\ running
    /\ \E n \in dropped : \A t \in LiveTasks(tasks) : tasks[t].v # n

\* C3: additionalLoadRunning is read and written under additionalLoadMu: the
\* traversal, which tests and sets it, runs with the mutex held by the user
\* interface; a goroutine clears it holding the mutex; and the traversal is
\* never under way while a goroutine is between its Lock and its Unlock.
C3_FlagUnderMutex ==
    [][/\ render.pc = "run" => mu = Ui
       /\ \A t \in TaskIds : tasks[t].pc = "locked" => mu = LoadHolder(t)
       /\ ~(render.pc = "run" /\ \E t \in TaskIds : tasks[t].pc = "locked")
       /\ running' # running =>
             \/ IsRenderVisit /\ mu = Ui
             \/ \E t \in TaskIds : tasks[t].pc = "locked" /\ mu = LoadHolder(t) /\ ~running']_vars

\* a goroutine holds the mutex to clear the flag while the user interface has
\* a redraw to do
C3_Witness ==
    \E t \in TaskIds : tasks[t].pc = "locked" /\ mu = LoadHolder(t) /\ running /\ redraw # {}

\* C4: with the fairness above every goroutine started by loadMore* returns,
\* and when it returns it has cleared the flag and has called wnd.Changed()
\* once, whether the evaluation succeeded or failed.
C4_Completes ==
    /\ \A t \in TaskIds : (tasks[t] # NoTask) ~> (tasks[t] = NoTask)
    /\ [][\A t \in TaskIds :
             IsExit(t) =>
                /\ tasks[t].cleared \/ tasks[t].pc = "locked"
                /\ tasks[t].signals + (IF tasks[t].pc = "changed" THEN 1 ELSE 0) = 1]_vars

\* a load of a struct has failed, its goroutine has signalled, cleared the
\* flag and returned
C4_Witness ==
    /\ ~running
    /\ LiveTasks(tasks) = {}
    /\ redraw # {}
    /\ \E n \in NodeIds : heap[n] # NoNode /\ heap[n].Kind = "Struct" /\ heap[n].Unreadable = ErrText

\* C5: a node whose request was refused is asked for again when it is shown
\* open by a traversal that finds the flag clear, whichever path made the
\* first request.
C5_Reissued ==
    (/\ render.pc = "run"
     /\ ~running
     /\ Head(render.stack).op = "show"
     /\ Site(heap, Head(render.stack)) \in dropped)
        => Visit(Head(render.stack), TRUE, FALSE).call.fn # "none"

\* C6: a node marked loading is the target of the outstanding load, and at
\* most one node is marked.
C6_LoadingIsInFlight ==
    /\ \A n \in Live(heap) :
          heap[n].loading => \E t \in Outstanding(tasks) : tasks[t].v = n
    /\ Cardinality({n \in Live(heap) : heap[n].loading}) <= 1

\* C7: the traversal writes no field of a node, and no goroutine of loadMore*
\* writes a node while the traversal is under way.
C7_OneWriter ==
    [][/\ IsRenderVisit =>
             \A n \in NodeIds : (heap[n] # NoNode /\ heap'[n] # NoNode) => heap'[n] = heap[n]
       /\ \A t \in TaskIds : IsReturn(t) => render.pc # "run"]_vars

\* C8: the goroutine writes the node it was started with and no other: every
\* other node that exists before and after its merge is as it was and the
\* panels keep their trees, also when the node is no longer in any panel.
C8_TargetOnly ==
    [][\A t \in TaskIds :
          IsReturn(t) =>
             /\ \A n \in NodeIds \ {tasks[t].v} :
                   (heap[n] # NoNode /\ heap'[n] # NoNode) => heap'[n] = heap[n]
             /\ <<locals, globals, watch>>' = <<locals, globals, watch>>
             /\ heap'[tasks[t].v] # NoNode]_vars

\* a load has been merged into a node that the panels no longer show
C8_Witness ==
    \E t \in LiveTasks(tasks) :
        /\ tasks[t].pc # "call"
        /\ tasks[t].err = <<>>
        /\ locals # <<>>
        /\ tasks[t].v \notin PanelNodes(heap, locals, globals, watch)

\* the children of the slices and arrays of heap h are named and addressed by
\* their position, and those of the slice s are its elements in order
NamingOK(h) ==
    \A n \in NodeIds :
        (h[n] # NoNode /\ h[n].Kind \in {"Slice", "Array"}) =>
            \A j \in 1..Len(h[n].Children) :
                /\ h[h[n].Children[j]].DisplayName = <<"[">> \o Itoa(j - 1) \o <<"]">>
                /\ h[h[n].Children[j]].Expression =
                      (IF h[n].Expression = <<>> THEN <<>>
                       ELSE h[n].Expression \o <<"[">> \o Itoa(j - 1) \o <<"]">>)
                /\ (h[n].Type = T_sliceInt /\ h[n].Addr = 1) =>
                      h[h[n].Children[j]].Addr = 10 + (j - 1)

\* C9: child j of a slice or array node with expression E is named "[j]" and
\* has expression E + "[j]", or none when E is empty; a successful
\* loadMoreArrayOrSlice fetches the elements that follow the children there
\* are, appends them and leaves the existing children as they were.
C9_SliceChildren ==
    [][/\ NamingOK(heap')
       /\ \A t \in TaskIds :
             (IsReturn(t) /\ tasks[t].fn = "Array" /\ tasks'[t].err = <<>>) =>
                /\ Len(heap'[tasks[t].v].Children) > Len(heap[tasks[t].v].Children)
                /\ SubSeq(heap'[tasks[t].v].Children, 1, Len(heap[tasks[t].v].Children))
                      = heap[tasks[t].v].Children
                /\ \A j \in 1..Len(heap[tasks[t].v].Children) :
                      heap'[heap[tasks[t].v].Children[j]] = heap[heap[tasks[t].v].Children[j]]]_vars

\* the slice s has all its elements, loaded in several batches
C9_Witness ==
    \E n \in Live(heap) :
        /\ heap[n].Kind = "Slice"
        /\ heap[n].Addr = 1
        /\ heap[n].Expression # <<>>
        /\ Len(heap[n].Children) = SliceLen
        /\ SliceLen > ShortLoad + LongLoad

\* C10: a failed loadMoreArrayOrSlice or loadMoreMap leaves the children as
\* they are and sets Len to their number (the number of pairs for a map), so
\* that the "more" button of the node is not offered.
C10_FailStopsMore ==
    [][\A t \in TaskIds :
          (IsReturn(t) /\ tasks[t].fn \in {"Array", "Map"} /\ tasks'[t].err # <<>>) =>
             /\ heap'[tasks[t].v].Children = heap[tasks[t].v].Children
             /\ heap'[tasks[t].v].Len =
                   (IF tasks[t].fn = "Map" THEN Len(heap[tasks[t].v].Children) \div 2
                    ELSE Len(heap[tasks[t].v].Children))
             /\ tasks[t].fn = "Array" =>
                   moreArrayOrSlice(heap', [running |-> FALSE, tasks |-> tasks'],
                                    tasks[t].v, TRUE).call.fn = "none"
             /\ tasks[t].fn = "Map" =>
                   moreMap(heap', [running |-> FALSE, tasks |-> tasks'],
                           tasks[t].v, TRUE).call.fn = "none"]_vars

\* a loadMoreMap has failed on a map that had pairs left to load
C10_Witness ==
    \E t \in LiveTasks(tasks) :
        /\ tasks[t].fn = "Map"
        /\ tasks[t].err # <<>>
        /\ heap[tasks[t].v].Len = Len(heap[tasks[t].v].Children) \div 2
        /\ heap[tasks[t].v].Len < MapLen

\* node n is a slice or array that has as many children as its length says
Complete(n) ==
    /\ heap[n] # NoNode
    /\ heap[n].Kind \in {"Slice", "Array"}
    /\ Len(heap[n].Children) = heap[n].Len

Maps(h) == {n \in NodeIds : h[n] # NoNode /\ h[n].Kind = "Map"}
\* the number of pairs map node n of heap h has
Pairs(h, n) == Len(h[n].Children) \div 2

\* C12: in a map node the pair at position j (zero-based, counting all the
\* pairs of the map) that is kept as two nodes has them named "[j key]" and
\* "[j value]", also when it arrived by loadMoreMap.
C12_PairNumbering ==
    \A n \in Maps(heap) :
        \A j \in 0..(Pairs(heap, n) - 1) :
            heap[n].Children[2 * j + 2] # Nil =>
                /\ heap[heap[n].Children[2 * j + 1]].DisplayName
                      = pairName(j, <<"k", "e", "y">>)
                /\ heap[heap[n].Children[2 * j + 2]].DisplayName
                      = pairName(j, <<"v", "a", "l", "u", "e">>)

\* the children of the maps of heap h come in pairs, the first of a pair a
\* node, and the pairs of the map m are its pairs in order
MapsOK(h) ==
    \A n \in Maps(h) :
        /\ Len(h[n].Children) % 2 = 0
        /\ \A j \in 0..(Pairs(h, n) - 1) :
              /\ h[n].Children[2 * j + 1] # Nil
              /\ h[n].Addr = 2 =>
                    h[IF h[n].Children[2 * j + 2] = Nil THEN h[n].Children[2 * j + 1]
                      ELSE h[n].Children[2 * j + 2]].Addr = 20 + j

\* C13: a map node always has an even number of children, two for every pair
\* received whether the pair was folded or not: a successful loadMoreMap adds
\* two per pair of its answer and a failed one adds none.
C13_EvenPairs ==
    [][/\ MapsOK(heap')
       /\ \A t \in TaskIds :
             (IsReturn(t) /\ tasks[t].fn = "Map") =>
                IF tasks'[t].err # <<>>
                THEN heap'[tasks[t].v].Children = heap[tasks[t].v].Children
                ELSE \E lv \in EvalVariable(loadExpr("Map", heap[tasks[t].v])) :
                        /\ Len(lv.Children) > 0
                        /\ Len(heap'[tasks[t].v].Children)
                              = Len(heap[tasks[t].v].Children) + Len(lv.Children)]_vars

\* the map m has all its pairs, a folded one and one kept as key and value
C13_Witness ==
    \E n \in Maps(heap) :
        /\ Pairs(heap, n) = MapLen
        /\ MapLen > ShortLoad
        /\ \E j \in 0..(Pairs(heap, n) - 1) : heap[n].Children[2 * j + 2] = Nil
        /\ \E j \in 0..(Pairs(heap, n) - 1) : heap[n].Children[2 * j + 2] # Nil

\* the pairs the service sent for the map w
WrapInput == CHOOSE ps \in PairSeqs(MaxPairs) : session.locals = {<<Loc_w(ps)>>}
\* the node of the map w
WrapMaps == {n \in Maps(heap) : heap[n].Addr = 6}
\* node id shows the snapshot v under the name name, without expression
Shows(id, v, name) ==
    /\ id # Nil
    /\ heap[id].Addr = v.Addr
    /\ heap[id].Kind = v.Kind
    /\ heap[id].DisplayName = name
    /\ heap[id].Expression = <<>>
\* the keys that fold: childless, a value of fewer than 20 characters, and a
\* string or a number
Folds(key) ==
    /\ Len(key.Children) = 0
    /\ Len(key.Value) < 20
    /\ key.Kind \in {"String"} \cup NumericKinds
\* a pair slot is the folded value under name, or the key and the value
OneNode(n, j, value, name) ==
    /\ Shows(heap[n].Children[2 * j + 1], value, name)
    /\ heap[n].Children[2 * j + 2] = Nil
TwoNodes(n, j, key, value) ==
    /\ Shows(heap[n].Children[2 * j + 1], key, pairName(j, <<"k", "e", "y">>))
    /\ Shows(heap[n].Children[2 * j + 2], value, pairName(j, <<"v", "a", "l", "u", "e">>))

Collapsed(n, j) ==
    heap[n].Children[2 * j + 1] = Nil \/ heap[n].Children[2 * j + 2] = Nil

\* C15: a collapsed map pair has its node, the wrapped value of the pair, in
\* the first of its two places (the key slot) and nil in the second (the
\* value slot).
C15_ValueThenNil ==
    \A n \in WrapMaps :
        \A j \in 0..(Pairs(heap, n) - 1) :
            Collapsed(n, j) =>
                /\ heap[n].Children[2 * j + 2] = Nil
                /\ heap[n].Children[2 * j + 1] # Nil
                /\ heap[heap[n].Children[2 * j + 1]].Addr = WrapInput[2 * j + 2].Addr

\* a wrapped map whose second pair is collapsed
C15_Witness ==
    \E n \in WrapMaps : Pairs(heap, n) = MaxPairs /\ Collapsed(n, MaxPairs - 1)

\* C15 as stated: nil is in the key slot and the node in the value slot.
C15_NilThenValue ==
    \A n \in WrapMaps :
        \A j \in 0..(Pairs(heap, n) - 1) :
            Collapsed(n, j) =>
                /\ heap[n].Children[2 * j + 1] = Nil
                /\ heap[n].Children[2 * j + 2] # Nil

\* goroutine t gets the answer of loadMoreStruct in this step: a value, or an error
StructOk(t) == IsReturn(t) /\ tasks[t].fn = "Struct" /\ tasks'[t].err = <<>>
StructErr(t) == IsReturn(t) /\ tasks[t].fn = "Struct" /\ tasks'[t].err # <<>>

\* node n of heap h has the raw fields of the snapshot lv and one child for
\* each child of lv, in order
WrapsFresh(h, n, lv) ==
    /\ h[n].Kind = lv.Kind
    /\ h[n].Type = lv.Type
    /\ h[n].Addr = lv.Addr
    /\ h[n].Len = lv.Len
    /\ h[n].OnlyAddr = lv.OnlyAddr
    /\ h[n].Unreadable = lv.Unreadable
    /\ h[n].RawValue = lv.Value
    /\ h[n].Value = formatValue(lv, TRUE)
    /\ Len(h[n].Children) = Len(lv.Children)
    /\ \A i \in 1..Len(lv.Children) :
          /\ lv.Kind = "Map" \/ h[n].Children[i] # Nil
          /\ h[n].Children[i] # Nil =>
                h[h[n].Children[i]].Addr \in {lv.Children[k].Addr : k \in {i, i + 1} \cap DOMAIN lv.Children}

\* C16: a successful loadMoreStruct replaces the node in place: the node, and
\* every reference to it, stays; its DisplayName, Varname and Expression are
\* those it had; its raw fields, value and children are those of the wrapped
\* answer, the children newly allocated.
C16_ReplacedInPlace ==
    [][\A t \in TaskIds :
          StructOk(t) =>
            \E v \in {tasks[t].v} :
               /\ heap'[v] # NoNode
               /\ heap'[v].DisplayName = heap[v].DisplayName
               /\ heap'[v].Varname = heap[v].Varname
               /\ heap'[v].Expression = heap[v].Expression
               /\ heap'[v].Name = heap[v].Name
               /\ \E lv \in EvalVariable(loadExpr("Struct", heap[v])) : WrapsFresh(heap', v, lv)
               /\ Range(heap'[v].Children) \cap Range(heap[v].Children) \subseteq {Nil}
               /\ \A n \in NodeIds :
                     (heap[n] # NoNode /\ heap'[n] # NoNode /\ v \in Range(heap[n].Children))
                        => heap'[n] = heap[n]
               /\ <<locals', globals', watch'>> = <<locals, globals, watch>>]_vars

\* element [0] of q has been loaded by loadMoreStruct: it has its field and
\* still its name, not the type name a fresh wrap would give it
C16_Witness ==
    \E t \in LiveTasks(tasks) :
        /\ tasks[t].fn = "Struct"
        /\ tasks[t].pc # "call"
        /\ tasks[t].err = <<>>
        /\ heap[tasks[t].v].Kind = "Struct"
        /\ heap[tasks[t].v].DisplayName = <<"[", "0", "]">>
        /\ heap[tasks[t].v].DisplayName # heap[tasks[t].v].Type
        /\ Len(heap[tasks[t].v].Children) = 1

\* C17: a failed loadMoreStruct sets the node's Unreadable to the error text
\* and changes nothing else of the node or of any other node.
C17_FailMarksOnly ==
    [][\A t \in TaskIds :
          StructErr(t) =>
            /\ tasks'[t].err = ErrText
            /\ heap' = [heap EXCEPT ![tasks[t].v].Unreadable = ErrText]
            /\ <<locals', globals', watch'>> = <<locals, globals, watch>>]_vars

\* a loadMoreStruct has failed on a node that has children: the map m
C17_Witness ==
    \E t \in LiveTasks(tasks) :
        /\ tasks[t].fn = "Struct"
        /\ tasks[t].pc # "call"
        /\ tasks[t].err = ErrText
        /\ heap[tasks[t].v].Unreadable = ErrText
        /\ Len(heap[tasks[t].v].Children) > 0

\* C18: a goroutine of loadMoreArrayOrSlice, loadMoreMap or loadMoreStruct
\* whose evaluation failed has written exactly one line to the scrollback, and
\* one whose evaluation succeeded has written none.
C18_OneLinePerFailure ==
    \A t \in LiveTasks(tasks) :
        tasks[t].pc # "call" =>
            tasks[t].lines = IF tasks[t].err # <<>> THEN 1 ELSE 0

\* C19: a render pass starts an automatic load (loadMoreStruct; the "more"
\* buttons call loadMoreMap and loadMoreArrayOrSlice) only while it draws a
\* node at a depth below 10, whichever branch of showVariable asks for it.
C19_AutoloadBelowDepth ==
    [][\A t \in TaskIds :
          (tasks[t] = NoTask /\ tasks'[t] # NoTask /\ tasks'[t].fn = "Struct")
             => Head(render.stack).depth < maxAutoloadDepth]_vars

\* the nodes a step has wrapped: the trees of a scope load, the node
\* loadMoreStruct has replaced with all below it, the children loadMoreMap or
\* loadMoreArrayOrSlice has appended with all below them
Rewrapped ==
    (IF loads' # loads THEN PanelNodes(heap', locals', globals', watch') ELSE {})
    \cup UNION {IF ~IsReturn(t) \/ tasks'[t].err # <<>> THEN {}
                ELSE IF tasks[t].fn = "Struct" THEN Reach(heap', {tasks[t].v})
                ELSE Reach(heap', (Range(heap'[tasks[t].v].Children)
                                      \ Range(heap[tasks[t].v].Children)) \ {Nil}) :
                t \in TaskIds}

\* C20: every node that is wrapped while a formatter is installed for its
\* address shows its received value in that formatter's number mode, whatever
\* its kind and type: not the quoted character, not the custom format of its
\* type, not the decoded time; this holds for a scope load and for the wraps
\* of loadMoreStruct, loadMoreMap and loadMoreArrayOrSlice alike.
C20_OverrideWins ==
    [][\A n \in Rewrapped :
          heap'[n].Addr \in DOMAIN varFormat =>
             /\ heap'[n].Value = formatNumber(varFormat[heap'[n].Addr], heap'[n].RawValue)
             /\ heap'[n].IntMode = varFormat[heap'[n].Addr].mode]_vars

\* the time.Time at the address of its field wall, for which the user has
\* picked hexadecimal, has been wrapped again by loadMoreStruct (the menu is not
\* offered for a struct): it shows the number, not the time
C20_Witness ==
    \E n \in NodeIds :
        /\ heap[n] # NoNode
        /\ heap[n].Type = T_time
        /\ Len(heap[n].Children) = 3
        /\ heap[n].Addr \in DOMAIN varFormat
        /\ varFormat[heap[n].Addr].mode = "hex"
        /\ heap[n].Value = <<"0", "x", "0">>
        /\ heap[n].Value # formatTime(TimeAt(FALSE, TimeFields))

\* what wrapApiVariable received for node n, as far as the formatting rules
\* read it: the node's own fields and those of its children
Received(h, n) ==
    [Kind |-> h[n].Kind, Type |-> h[n].Type, Name |-> h[n].Name, Addr |-> h[n].Addr,
     Value |-> h[n].RawValue, Unreadable |-> h[n].Unreadable]
ReceivedTree(h, n) ==
    [Kind |-> h[n].Kind, Type |-> h[n].Type, Name |-> h[n].Name, Addr |-> h[n].Addr,
     Value |-> h[n].RawValue, Unreadable |-> h[n].Unreadable,
     Children |-> [i \in 1..Len(SelectSeq(h[n].Children, LAMBDA c : c # Nil)) |->
                      Received(h, SelectSeq(h[n].Children, LAMBDA c : c # Nil)[i])]]
\* the nodes printVar wrapped, without custom formatters
PrintedNodes == IF printed = Nil THEN {} ELSE Reach(heap, {printed})
\* the value is an 8-bit or 32-bit integer in ' '..'~'
PrintableChar(v) == v.Type \in {T_uint8, T_int32} /\ printableRune(v.Value) # 0
\* the rules below the character heuristic, first match first
BelowHeuristic(v, flag) ==
    IF v.Type \in session.formatters /\ flag THEN customFormat(v)
    ELSE IF v.Type = T_time THEN formatTime(v)
    ELSE v.Value

\* C21: a node without address override whose value is not an 8-bit or 32-bit
\* integer in the printable range shows the custom format of its type when
\* one is registered and custom formatters are allowed, otherwise the decoded
\* time when it is a time.Time, otherwise the value received; and no node
\* wrapped without custom formatters shows a custom format.
C21_FirstMatchWins ==
    /\ \A n \in Live(heap) :
          (heap[n].Addr \notin DOMAIN varFormat /\ ~PrintableChar(ReceivedTree(heap, n)))
             => heap[n].Value = BelowHeuristic(ReceivedTree(heap, n), n \notin PrintedNodes)
    /\ \A n \in PrintedNodes :
          heap[n].Type \in session.formatters
             => heap[n].Value # customFormat(ReceivedTree(heap, n))

\* the same for the nodes whose type is neither uint8 nor int32
C21_OtherTypes ==
    /\ \A n \in Live(heap) :
          (heap[n].Addr \notin DOMAIN varFormat /\ heap[n].Type \notin {T_uint8, T_int32})
             => heap[n].Value = BelowHeuristic(ReceivedTree(heap, n), n \notin PrintedNodes)
    /\ \A n \in PrintedNodes :
          heap[n].Type \in session.formatters
             => heap[n].Value # customFormat(ReceivedTree(heap, n))

\* the local v of the type uint8 with the value 200, for whose type a custom
\* formatter is registered, has been wrapped with custom formatters allowed
C21_Witness ==
    /\ T_uint8 \in session.formatters
    /\ Len(locals) = 1
    /\ heap[locals[1]].Type = T_uint8
    /\ heap[locals[1]].RawValue = <<"2", "0", "0">>
    /\ heap[locals[1]].Value = <<"2", "0", "0">>

\* the number a string of one to three decimal digits denotes, -1 for any
\* other string
Code(s) ==
    IF IsDigits(s) /\ Len(s) <= 3
    THEN LET d(i) == DigitVal(s[i])
         IN CASE Len(s) = 1 -> d(1)
              [] Len(s) = 2 -> 10 * d(1) + d(2)
              [] OTHER -> 100 * d(1) + 10 * d(2) + d(3)
    ELSE -1

\* C22: a node without address override of the type uint8 or int32 whose
\* value n is in 32..126 shows the decimal value, a space and the quoted
\* character with the code n; for any other value it shows the value alone.
C22_CharHeuristic ==
    \A n \in Live(heap) :
        (heap[n].Addr \notin DOMAIN varFormat /\ heap[n].Type \in {T_uint8, T_int32})
           => heap[n].Value =
                 IF Code(heap[n].RawValue) \in 32..126
                 THEN heap[n].RawValue \o <<" ", "'">>
                        \o (IF Printable[Code(heap[n].RawValue) - 31] \in {"'", "\\"}
                            THEN <<"\\">> ELSE <<>>)
                        \o <<Printable[Code(heap[n].RawValue) - 31], "'">>
                 ELSE heap[n].RawValue

\* the local v of the type int32 with the value 65 shows 65 'A', although a
\* custom formatter is registered for another type
C22_Witness ==
    /\ session.formatters # {}
    /\ Len(locals) = 1
    /\ heap[locals[1]].Type = T_int32
    /\ heap[locals[1]].RawValue = <<"6", "5">>
    /\ heap[locals[1]].Value = <<"6", "5", " ", "'", "A", "'">>

\* the time.Time nodes without address override that the custom formatter rule
\* leaves to the decoder
Decoded ==
    {n \in Live(heap) :
        /\ heap[n].Type = T_time
        /\ heap[n].Addr \notin DOMAIN varFormat
        /\ (T_time \notin session.formatters \/ n \in PrintedNodes)}
\* the children of n called name
Named(n, name) ==
    {c \in Range(heap[n].Children) \ {Nil} : heap[c].Name = name}
\* decimal digits that denote a number of at most max, a numeral without
\* zeros in front
AtMost(s, max) ==
    /\ IsDigits(s)
    /\ \/ Len(s) < Len(max)
       \/ /\ Len(s) = Len(max)
          /\ \/ s = max
             \/ \E i \in 1..Len(s) :
                   /\ DigitVal(s[i]) < DigitVal(max[i])
                   /\ \A j \in 1..(i - 1) : s[j] = max[j]
IsUint64(s) == AtMost(s, MaxUint64)
IsInt64(s) ==
    IF s # <<>> /\ s[1] = "-" THEN AtMost(Tail(s), TwoTo63)
    ELSE IF s # <<>> /\ s[1] = "+" THEN AtMost(Tail(s), MaxInt64)
    ELSE AtMost(s, MaxInt64)
\* a sub-field is missing, unreadable, empty or does not parse
Malformed(n) ==
    \/ Named(n, <<"w", "a", "l", "l">>) = {}
    \/ Named(n, <<"e", "x", "t">>) = {}
    \/ \E c \in Named(n, <<"w", "a", "l", "l">>) \cup Named(n, <<"e", "x", "t">>) :
          heap[c].Unreadable # <<>> \/ heap[c].RawValue = <<>>
    \/ \E c \in Named(n, <<"w", "a", "l", "l">>) : ~IsUint64(heap[c].RawValue)
    \/ \E c \in Named(n, <<"e", "x", "t">>) : ~IsInt64(heap[c].RawValue)

\* C23: a time.Time that reaches the decoder with wall or ext missing,
\* unreadable, empty or not a 64-bit unsigned (wall) or signed (ext) decimal
\* number shows the value string it was received with, and the wrap completes
\* as for any other node (its children are wrapped).
C23_FallsBack ==
    \A n \in Decoded :
        Malformed(n) =>
            /\ heap[n].Value = heap[n].RawValue
            /\ heap[n].Unreadable = <<>>
            /\ Len(heap[n].Children) = heap[n].Len

\* a time.Time whose wall is 2^64, one more than 64 bits hold, next to a valid
\* ext, shows the value "?" it was received with
C23_Witness ==
    \E n \in Decoded :
        /\ \E c \in Named(n, <<"w", "a", "l", "l">>) : heap[c].RawValue = TwoTo64
        /\ \E c \in Named(n, <<"e", "x", "t">>) : heap[c].RawValue = ExtValue
        /\ heap[n].RawValue = <<"?">>
        /\ heap[n].Value = <<"?">>

\* the first child of n called name
Field(n, name) ==
    CHOOSE c \in Named(n, name) : TRUE
\* the value of wall and of ext of a node that is not malformed
WallOf(n) == ParseUint(heap[Field(n, <<"w", "a", "l", "l">>)].RawValue).v
ExtOf(n) == ParseInt(heap[Field(n, <<"e", "x", "t">>)].RawValue).v
\* (wall mod 2^63) div 2^30: bit 63 cleared, then three divisions by 1024
SecondCount(wall) ==
    DivSmall(DivSmall(DivSmall(<<wall[1], wall[2], wall[3], wall[4] % 32768>>, 1024).q,
                      1024).q, 1024).q
\* the calendar time at the Unix second x (a signed word)
AtUnixSecond(x) == RFC3339(FloorDays(x).days, FloorDays(x).sod)
WallEpoch == ParseUint(<<"2", "6", "8", "2", "2", "8", "8", "0", "0", "0">>).v

\* C24: a time.Time that reaches the decoder with bit 63 of wall set shows
\* time.Time(T, E): T is the calendar time at the Unix second
\* (wall mod 2^63) div 2^30 - 2682288000 and E is ext with its sign; for the
\* wall of 2021-01-01T00:00:00Z and ext = 5000000000 that is
\* time.Time(2021-01-01T00:00:00Z, +5000000000).
C24_Monotonic ==
    \A n \in Decoded :
        (~Malformed(n) /\ WallOf(n)[4] >= 32768) =>
            /\ heap[n].Value =
                  <<"t", "i", "m", "e", ".", "T", "i", "m", "e", "(">>
                    \o AtUnixSecond(Add64(SecondCount(WallOf(n)), Neg64(WallEpoch)))
                    \o <<",", " ">>
                    \o (IF heap[Field(n, <<"e", "x", "t">>)].RawValue[1] = "-" THEN <<>>
                        ELSE <<"+">>)
                    \o heap[Field(n, <<"e", "x", "t">>)].RawValue
                    \o <<")">>
            /\ (heap[Field(n, <<"w", "a", "l", "l">>)].RawValue = WallValue
                  /\ heap[Field(n, <<"e", "x", "t">>)].RawValue = ExtValue)
               => heap[n].Value =
                     <<"t", "i", "m", "e", ".", "T", "i", "m", "e", "(",
                       "2", "0", "2", "1", "-", "0", "1", "-", "0", "1", "T",
                       "0", "0", ":", "0", "0", ":", "0", "0", "Z", ",", " ",
                       "+", "5", "0", "0", "0", "0", "0", "0", "0", "0", "0", ")">>

\* a wall with bit 63 and all 33 bits of the count set, next to ext = -1,
\* shows the calendar time 8589934591 seconds after 1 January 1885
C24_Witness ==
    \E n \in Decoded :
        /\ \E c \in Named(n, <<"w", "a", "l", "l">>) : heap[c].RawValue = MaxUint64
        /\ \E c \in Named(n, <<"e", "x", "t">>) : heap[c].RawValue = <<"-", "1">>
        /\ heap[n].Value =
              <<"t", "i", "m", "e", ".", "T", "i", "m", "e", "(",
                "2", "1", "5", "7", "-", "0", "3", "-", "1", "6", "T",
                "1", "2", ":", "5", "6", ":", "3", "1", "Z", ",", " ", "-", "1", ")">>

\* seconds from 1 January of year 1 to 1 January 1970
YearOneToUnix == ParseUint(<<"6", "2", "1", "3", "5", "5", "9", "6", "8", "0", "0">>).v

\* C25: a time.Time that reaches the decoder with bit 63 of wall clear shows
\* the calendar time exactly ext seconds from 1 January of year 1, for a
\* positive and for a negative ext: no step of the additions wraps around.
C25_AdvancesByExt ==
    \A n \in Decoded :
        (~Malformed(n) /\ WallOf(n)[4] < 32768) =>
            heap[n].Value = AtUnixSecond(Add64(ExtOf(n), Neg64(YearOneToUnix)))

\* the same for the values of ext from -9223372036 on
C25_FromChunkDown ==
    \A n \in Decoded :
        (~Malformed(n) /\ WallOf(n)[4] < 32768
            /\ ~Less64(ExtOf(n), Neg64(maxAddSeconds))) =>
            heap[n].Value = AtUnixSecond(Add64(ExtOf(n), Neg64(YearOneToUnix)))

\* ext = -9223372037, one second below what a time.Duration holds in
\* nanoseconds, next to wall = 0: the node shows a day of the year 293
C25_Witness ==
    \E n \in Decoded :
        /\ \E c \in Named(n, <<"w", "a", "l", "l">>) : heap[c].RawValue = <<"0">>
        /\ \E c \in Named(n, <<"e", "x", "t">>) : heap[c].RawValue = <<"-">> \o ExtChunkUp
        /\ heap[n].Value = <<"0", "2", "9", "3", "-", "0", "4", "-", "1", "1", "T",
                             "2", "3", ":", "4", "7", ":", "1", "6", "Z">>

\* the children of n that are nodes
Kids(n) == Range(heap[n].Children) \ {Nil}
\* s has the form (*(X)), and its X
IsDeref(s) ==
    /\ Len(s) >= 5
    /\ SubSeq(s, 1, 3) = <<"(", "*", "(">>
    /\ SubSeq(s, Len(s) - 1, Len(s)) = <<")", ")">>
Inner(s) == SubSeq(s, 4, Len(s) - 2)
\* s contains (*( somewhere
HasDeref(s) == \E i \in 1..(Len(s) - 2) : SubSeq(s, i, i + 2) = <<"(", "*", "(">>

\* C26: the child of a pointer with the expression E has the expression
\* (*(E)); a field f of a struct or channel with the expression E has the
\* expression E.f, or X.f when E is (*(X)); so the fields of the struct a
\* pointer with a plain expression X points to have the expressions X.f,
\* with no (*( in them.
C26_PointerAndField ==
    \A n \in Live(heap) :
        heap[n].Expression # <<>> =>
            /\ heap[n].Kind = "Ptr" =>
                  \A c \in Kids(n) :
                      /\ heap[c].Expression = <<"(", "*", "(">> \o heap[n].Expression \o <<")", ")">>
                      /\ (heap[c].Kind = "Struct" /\ ~HasDeref(heap[n].Expression)) =>
                            \A f \in Kids(c) :
                                /\ heap[f].Expression
                                      = heap[n].Expression \o <<".">> \o heap[f].Name
                                /\ ~HasDeref(heap[f].Expression)
            /\ heap[n].Kind \in {"Struct", "Chan"} =>
                  \A f \in Kids(n) :
                      heap[f].Expression =
                          (IF IsDeref(heap[n].Expression) THEN Inner(heap[n].Expression)
                           ELSE heap[n].Expression) \o <<".">> \o heap[f].Name

\* the pointer v to a struct with the field t, itself a struct with the field
\* wall: the expressions are (*(v)), v.t and v.t.wall
C26_Witness ==
    /\ \E n \in Live(heap), c \in Live(heap), f \in Live(heap), g \in Live(heap) :
          /\ heap[n].Kind = "Ptr" /\ heap[n].Expression = <<"v">> /\ c \in Kids(n)
          /\ heap[c].Expression = <<"(", "*", "(", "v", ")", ")">> /\ f \in Kids(c)
          /\ heap[f].Expression = <<"v", ".", "t">> /\ g \in Kids(f)
          /\ heap[g].Expression = <<"v", ".", "t", ".", "w", "a", "l", "l">>

\* the nodes wrapped at the top level: the locals, the globals, the watch
\* expressions and what printVar wrapped
TopLevel == (Range(locals) \cup Range(globals) \cup Range(watch) \cup {printed}) \ {Nil}

\* C27: every child of a map (a key, a value, a folded pair), the data of an
\* interface and every child of a node that is not a slice, an array, a
\* pointer, a struct or a channel has the empty expression; a node wrapped at
\* the top level has its name as display name and as expression.
C27_EmptyExpression ==
    /\ \A n \in Live(heap) :
          heap[n].Kind \notin {"Slice", "Array", "Ptr", "Struct", "Chan"} =>
              \A c \in Kids(n) : heap[c].Expression = <<>>
    /\ \A n \in TopLevel :
          /\ heap[n].DisplayName = heap[n].Name
          /\ heap[n].Expression = heap[n].Name

\* the map v with a bool key has been loaded: the key node and the value node
\* have no expression, the map has the expression v
C27_Witness ==
    \E n \in TopLevel :
        /\ heap[n].Kind = "Map"
        /\ heap[n].Expression = <<"v">>
        /\ Len(heap[n].Children) = 2
        /\ heap[n].Children[2] # Nil
        /\ heap[heap[n].Children[1]].Kind = "Bool"
        /\ heap[heap[n].Children[1]].Expression = <<>>
        /\ heap[heap[n].Children[2]].Expression = <<>>

\* a node below the top level whose address is zero
NilBelow(n) ==
    /\ n \in Live(heap)
    /\ n \notin TopLevel
    /\ heap[n].Addr = 0
    /\ heap[n].Unreadable = <<>>

\* C28: a readable node below the top level whose address is zero is drawn as
\* nil by the render pass, whatever it is drawn for.
C28_NilShownAsNil ==
    \A r \in drawn : NilBelow(r[1]) => r[2] = "nil"

\* the render pass has drawn a nil for a node below the top level whose
\* address is zero
C28_Witness ==
    \E r \in drawn : NilBelow(r[1]) /\ r[2] = "nil"

\* Where showVariable is called for such a node (lines 747-750) the visit
\* pushes no child and asks for no load.
C28_NoDescent ==
    [][(IsRenderVisit
        /\ Head(render.stack).op = "show"
        /\ Head(render.stack).depth > 0
        /\ heap[Head(render.stack).n].Addr = 0)
       => /\ render' = IF Tail(render.stack) = <<>> THEN Idle
                       ELSE [render EXCEPT !.stack = Tail(render.stack)]
          /\ tasks' = tasks
          /\ running' = running]_vars

\* C29: a scope load of the locals calls done once; it passes an error when
\* the listing of the arguments or the listing of the locals returned one, one
\* of those returned, and nil when both succeeded; no node is made unreadable
\* by the error of a listing.
C29_DoneOnce ==
    [][(loads' # loads /\ Len(done') > 0 /\ done'[Len(done')].panel = "locals")
       => LET d == done'[Len(done')]
          IN /\ done' = Append(done, d)
             /\ (d.err # <<>>) <=> (\E i \in 1..Len(d.returned) : d.returned[i] # <<>>)
             /\ d.err # <<>> => \E i \in 1..Len(d.returned) : d.returned[i] = d.err
             /\ \A n \in Live(heap') : heap'[n].Unreadable # ListErr]_vars

\* every scope load, of the locals or of the globals, calls done once
C29_EveryLoad ==
    [][loads' # loads => Len(done') = Len(done) + 1]_vars

\* loadLocals has reported the error of the listing of the arguments, the
\* listing of the locals having succeeded, and another load has reported nil
C29_Witness ==
    /\ \E i \in 1..Len(done) :
          /\ done[i].panel = "locals"
          /\ done[i].returned = <<ListErr, <<>>>>
          /\ done[i].err = ListErr
    /\ \E i \in 1..Len(done) :
          /\ done[i].panel = "locals"
          /\ done[i].returned = <<<<>>, <<>>>>
          /\ done[i].err = <<>>

\* the Varname of the locals ids are pairwise distinct in heap h
DistinctVarnames(h, ids) ==
    \A i, j \in 1..Len(ids) : i # j => h[ids[i]].Varname # h[ids[j]].Varname

\* each of ids has its display name and the number of those before it with
\* the same display name, and ids is in the order of the declaration lines
NumberedByDeclLine(h, ids) ==
    /\ \A i, j \in 1..Len(ids) : i < j => h[ids[i]].DeclLine <= h[ids[j]].DeclLine
    /\ \A i \in 1..Len(ids) :
          h[ids[i]].Varname =
              h[ids[i]].DisplayName \o <<" ">>
                  \o Itoa(Cardinality({j \in 1..(i - 1) :
                                          h[ids[j]].DisplayName = h[ids[i]].DisplayName}))

\* C30: the Varname of the locals are pairwise distinct; loadLocals leaves the
\* locals in the order of their declaration lines, each with its display name
\* and the number of the earlier locals of that display name; no later step,
\* loadMoreStruct included, changes the Varname of a local.
C30_UniqueIds ==
    [][/\ DistinctVarnames(heap', locals')
       /\ (loads' # loads /\ done'[Len(done')].panel = "locals") =>
             NumberedByDeclLine(heap', locals')
       /\ loads' = loads =>
             /\ locals' = locals
             /\ \A i \in 1..Len(locals) :
                   heap'[locals[i]].Varname = heap[locals[i]].Varname]_vars

\* two locals named t: the struct declared first is "t 0" and has been loaded
\* by loadMoreStruct, the int declared after it is "t 1"
C30_Witness ==
    /\ Len(locals) = 2
    /\ heap[locals[1]].DisplayName = <<"t">>
    /\ heap[locals[2]].DisplayName = <<"t">>
    /\ heap[locals[1]].Kind = "Struct"
    /\ Len(heap[locals[1]].Children) = 1
    /\ heap[locals[1]].Varname = <<"t", " ", "0">>
    /\ heap[locals[2]].Varname = <<"t", " ", "1">>

\* C31: the table of the number modes installed by address has no entry for
\* the address zero.
C31_NoZeroOverride == 0 \notin DOMAIN varFormat

\* a number mode has been installed for a node with an address
C31_Witness == \E a \in DOMAIN varFormat : a # 0

RECURSIVE FirstRun(_)
\* the length of the longest prefix of str without a whitespace character
FirstRun(str) == IF str = <<>> \/ IsSpace(str[1]) THEN 0 ELSE 1 + FirstRun(Tail(str))

RECURSIVE MaximalFields(_)
\* the maximal substrings of str without a whitespace character, in order
MaximalFields(str) ==
    IF str = <<>> THEN <<>>
    ELSE IF IsSpace(str[1]) THEN MaximalFields(Tail(str))
    ELSE <<SubSeq(str, 1, FirstRun(str))>>
             \o MaximalFields(SubSeq(str, FirstRun(str) + 1, Len(str)))

NoQuote(str, quote) == \A i \in 1..Len(str) : str[i] # quote /\ str[i] # "\\"

\* C40: for an input without a quote character splitQuotedFields returns its
\* maximal substrings without whitespace, in order, none of them empty.
C40_FieldsOfRuns ==
    NoQuote(split.in, split.quote) =>
        /\ split.out = MaximalFields(split.in)
        /\ \A i \in 1..Len(split.out) : split.out[i] # <<>>

\* an input with single separators has been split into its two fields
C40_Witness ==
    /\ split.in = <<"a", "b", " ", "b">>
    /\ split.out = <<<<"a", "b">>, <<"b">>>>

\* C32: Find of the empty string returns the last command recorded, or
\* nullCommand when there is none, and records nothing; Find of an alias
\* returns the function of the first command with that alias and records it;
\* Find of any other string returns a function that fails with "command ...
\* not available" and records nothing.
C32_Find ==
    [][found' # found \/ lastCmd' # lastCmd =>
          LET s == found'.cmdstr
          IN /\ s = <<>> =>
                   /\ found'.fn = IF lastCmd # "nil" THEN lastCmd ELSE "nullCommand"
                   /\ lastCmd' = lastCmd
             /\ (s # <<>> /\ \E i \in 1..Len(cmds) : match(cmds[i], s)) =>
                   /\ \E i \in 1..Len(cmds) :
                         /\ match(cmds[i], s)
                         /\ \A j \in 1..(i - 1) : ~match(cmds[j], s)
                         /\ found'.fn = cmds[i].cmdFn
                   /\ lastCmd' = found'.fn
             /\ (s # <<>> /\ ~\E i \in 1..Len(cmds) : match(cmds[i], s)) =>
                   /\ found'.fn = "notAvailable"
                   /\ found'.err = notAvailable(s)
                   /\ lastCmd' = lastCmd]_vars

\* after next was found, the empty command string has returned next
C32_Witness ==
    /\ found = [cmdstr |-> <<>>, fn |-> "next", err |-> <<>>]
    /\ lastCmd = "next"

\* C39: every command has at least one alias.
C39_HasAlias == \A i \in 1..Len(cmds) : Len(cmds[i].aliases) >= 1

\* an alias has been added to a command and another one deleted, and the help
\* has listed the commands
C39_Witness ==
    /\ cmds[2].aliases = <<S_next, <<"x">>>>
    /\ helped.names = <<S_clear, S_next, S_restart>>

\* C38: the breakpoint the last stepInto or continueToLine created is not
\* left in the service when the operation has returned.
C38_TemporaryCleared == stepped.bp # 0 => stepped.bp \notin breakpoints

\* stepInto has returned the error of Next and its breakpoint is cleared
C38_Witness ==
    /\ stepped.op = "stepInto"
    /\ stepped.err = "next"
    /\ stepped.bp # 0
    /\ stepped.bp \notin breakpoints

\* stepInto leaves no breakpoint on any of its paths
C38_StepIntoClears ==
    [][stepped'.op = "stepInto" /\ created' # created => breakpoints' = breakpoints]_vars

\* C33: a goroutine of loadMore* that has signalled the redraw has cleared
\* additionalLoadRunning before.
C33_ClearedBeforeSignal ==
    \A t \in LiveTasks(tasks) : tasks[t].signals > 0 => tasks[t].cleared

\* the goroutine of loadMoreArrayOrSlice has cleared the flag and is about to
\* signal the redraw
C33_Witness ==
    \E t \in LiveTasks(tasks) :
        /\ tasks[t].fn = "Array"
        /\ tasks[t].pc = "changed"
        /\ tasks[t].cleared
        /\ ~running

\* the goroutines of an automatic load: loadMoreStruct of a slice, an array
\* or a map (lines 817-820 and 854-857)
AutoLoads ==
    {t \in LiveTasks(tasks) :
        /\ tasks[t].fn = "Struct"
        /\ heap[tasks[t].v] # NoNode
        /\ heap[tasks[t].v].Kind \in {"Slice", "Array", "Map"}}

\* C34: with the fairness of FairSpec the automatic loads come to an end:
\* from some point on no goroutine of an automatic load exists.
C34_Quiesces == <>[](AutoLoads = {})

\* the automatic load of the slice q has brought the field of its element
\* and no load is left
C34_Witness ==
    /\ LiveTasks(tasks) = {}
    /\ ~running
    /\ \E n \in Live(heap) :
          /\ heap[n].Kind = "Slice"
          /\ heap[n].Type = T_sliceT
          /\ ~heap[n].loading
          /\ Len(heap[n].Children) = 1
          /\ Len(heap[heap[n].Children[1]].Children) = 1

\* C35: the two lists of the watch expressions have the same length, no
\* goroutine of loadOneExpr has indexed past the end of the list, and a
\* goroutine that holds the mutex and is about to write localsPanel.v[i]
\* has for i the place of the expression it was started for.
C35_SlotKept ==
    /\ Len(exprs) = Len(watch)
    /\ ~Crashed
    /\ \A k \in DOMAIN exprTasks :
          exprTasks[k].pc = "load" => exprTasks[k].i = exprTasks[k].at

\* the two lists have the same length
C35_EqualLength == Len(exprs) = Len(watch)

\* a goroutine is about to write the slot of its expression after another
\* expression was added behind it
C35_Witness ==
    /\ Len(exprs) = 2
    /\ \E k \in DOMAIN exprTasks :
          /\ exprTasks[k].pc = "load"
          /\ exprTasks[k].i = 0
          /\ exprTasks[k].at = 0

\* the children of the node n that exist (the slot after a folded map key
\* holds none)
ChildrenOf(n) ==
    {heap[n].Children[i] : i \in 1..Len(heap[n].Children)} \cap Live(heap)

\* C36: in every tree a node without an expression has only children without
\* an expression, and so only such descendants.
C36_EmptyBelowEmpty ==
    \A n \in Live(heap) :
        heap[n].Expression = <<>> =>
            \A c \in ChildrenOf(n) : heap[c].Expression = <<>>

\* a goroutine of loadMoreArrayOrSlice has added elements to a node without an
\* expression, the slice the "data" pointer of the interface i points to
C36_Witness ==
    \E n \in Live(heap) :
        /\ heap[n].Kind = "Ptr"
        /\ heap[n].Expression = <<>>
        /\ \E c \in ChildrenOf(n) :
              /\ heap[c].Kind = "Slice"
              /\ Len(heap[c].Children) > ShortLoad

\* C37: the node of every evaluation a goroutine of loadMore* is about to ask
\* for has an address that is not zero.
C37_NonZeroAddress ==
    \A t \in LiveTasks(tasks) :
        tasks[t].pc = "call" => heap[tasks[t].v].Addr # 0

\* a load-more evaluation is asked for a node below the top level
C37_Witness ==
    \E t \in LiveTasks(tasks) :
        /\ tasks[t].pc = "call"
        /\ heap[tasks[t].v].Addr # 0
        /\ \A i \in 1..Len(locals) : locals[i] # tasks[t].v
        /\ \A i \in 1..Len(globals) : globals[i] # tasks[t].v
        /\ \A i \in 1..Len(watch) : watch[i] # tasks[t].v
====
